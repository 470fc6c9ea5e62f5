----------------------------- MODULE ClaimPage -----------------------------
(***************************************************************************)
(* The page of a claim in the dashboard, and the form on it that moves the *)
(* claim (TransitionClaimButton), over the threads of ClaimTransition.     *)
(* Other clients of the API send their requests beside the tabs.           *)
(*                                                                         *)
(* A tab asks for the page (Visit, or router.refresh() after a success).   *)
(* The server reads the row of the claim, and then its history in a second *)
(* statement; the page that comes back replaces the one shown, and the     *)
(* form on it stays mounted, with what it holds, unless it is not rendered *)
(* any more.                                                               *)
(*                                                                         *)
(* A click on Confirm is the load of the request in a free thread: nothing *)
(* that happens to the request before that changes what the form can see.  *)
(* The answer comes when the handler is done, or is lost, at any time; a   *)
(* lost one is an error for the form, although the thread may still commit.*)
(* The notes, and whether the form is open or folded (it keeps what it     *)
(* holds), are left out.                                                    *)
(***************************************************************************)
EXTENDS ClaimTransition

CONSTANTS
    Tabs,       \* tabs of browsers
    NoPage,     \* a tab that shows another page, or "not found"
    NoForm,     \* a page without the form
    NoRender,   \* a tab for which no page is rendered
    NoPost      \* a thread whose request is of no tab, or whose tab has its answer

VARIABLES
    page,       \* page[t]: the claim, the status and the number of history rows shown
    render,     \* render[t]: the page being rendered, and the status read for it
    form,       \* form[t]: the state of TransitionClaimButton
    post        \* post[w]: the request of a tab in thread w, as the tab sees it

pageVars == <<page, render, form, post>>
claimPageVars == <<vars, pageVars>>

----------------------------------------------------------------------------
(* TRANSITIONS of the page.  A rejected claim is offered nothing here, while *)
(* the API resolves it.                                                     *)
Offers == [
    FILED        |-> <<"UNDER_REVIEW">>,
    UNDER_REVIEW |-> <<"APPROVED", "REJECTED">>,
    APPROVED     |-> <<"RESOLVED">>,
    REJECTED     |-> <<>>,
    RESOLVED     |-> <<>>]

Offered(s) == {Offers[s][i] : i \in DOMAIN Offers[s]}

Unread == "unread"
Page == [claim : Claims, status : Status, rows : Nat]
Render == [claim : Claims, status : Status \cup {Unread}]
Form == [selected : Status, amount : Amounts \cup {NoAmount}, loading : BOOLEAN]
(* Of the model only: whether the page offered the status when Confirm was  *)
(* clicked, and the row of the history the request committed.               *)
Post == [tab : Tabs, claim : Claims, to : Status, mounted : BOOLEAN,
         answer : {"none", "ok", "error"}, offered : BOOLEAN, row : Nat]

ASSUME PageAssumption ==
    NoPage \notin Page /\ NoRender \notin Render /\ NoForm \notin Form /\ NoPost \notin Post

PageInit ==
    /\ page = [t \in Tabs |-> NoPage]
    /\ render = [t \in Tabs |-> NoRender]
    /\ form = [t \in Tabs |-> NoForm]
    /\ post = [w \in Workers |-> NoPost]

(* useState of the form: the first status offered.                          *)
NewForm(p) == [selected |-> Offers[p.status][1], amount |-> NoAmount, loading |-> FALSE]

(* The form of t is unmounted: what its requests answer no longer reaches   *)
(* its state.                                                               *)
Orphaned(t) == [w \in Workers |->
    IF post[w] # NoPost /\ post[w].tab = t THEN [post[w] EXCEPT !.mounted = FALSE] ELSE post[w]]

----------------------------------------------------------------------------
(* The page.                                                               *)

Visit(t, c) ==
    /\ page[t] = NoPage /\ render[t] = NoRender
    /\ render' = [render EXCEPT ![t] = [claim |-> c, status |-> Unread]]
    /\ UNCHANGED <<vars, page, form, post>>

ReadStatus(t) ==
    /\ render[t] # NoRender /\ render[t].status = Unread
    /\ render' = [render EXCEPT ![t].status = claim[render[t].claim].status]
    /\ UNCHANGED <<vars, page, form, post>>

(* Mutated form: the history is of the first statement and the status of    *)
(* the second.                                                              *)
RenderedHistoryFirst(t) ==
    [claim |-> render[t].claim, status |-> claim[render[t].claim].status,
     rows |-> CHOOSE n \in DOMAIN history[render[t].claim] :
                 history[render[t].claim][n].to = render[t].status]

Rendered(t) == [claim |-> render[t].claim, status |-> render[t].status,
                rows |-> Len(history[render[t].claim])]

(* React keeps the state of a component that is rendered in the same place. *)
FormOn(t, p) ==
    IF Offers[p.status] = <<>> THEN NoForm
    ELSE IF form[t] # NoForm THEN form[t] ELSE NewForm(p)

(* The second statement, and the page is there.                             *)
Show(t) ==
    /\ render[t] # NoRender /\ render[t].status # Unread
    /\ page' = [page EXCEPT ![t] = Rendered(t)]
    /\ form' = [form EXCEPT ![t] = FormOn(t, Rendered(t))]
    /\ post' = IF FormOn(t, Rendered(t)) = form[t] THEN post ELSE Orphaned(t)
    /\ render' = [render EXCEPT ![t] = NoRender]
    /\ UNCHANGED vars

(* getClaim throws, whatever for: notFound().  A link to another page ends  *)
(* a page in the same way.                                                  *)
Leave(t) ==
    /\ page[t] # NoPage \/ render[t] # NoRender
    /\ page' = [page EXCEPT ![t] = NoPage]
    /\ form' = [form EXCEPT ![t] = NoForm]
    /\ render' = [render EXCEPT ![t] = NoRender]
    /\ post' = Orphaned(t)
    /\ UNCHANGED vars

(* The user reloads the tab, or closes it: nobody waits for its requests.   *)
Reload(t) ==
    /\ page[t] # NoPage
    /\ page' = [page EXCEPT ![t] = NoPage]
    /\ form' = [form EXCEPT ![t] = NoForm]
    /\ render' = [render EXCEPT ![t] = NoRender]
    /\ post' = [w \in Workers |->
          IF post[w] # NoPost /\ post[w].tab = t THEN NoPost ELSE post[w]]
    /\ UNCHANGED vars

----------------------------------------------------------------------------
(* The form.                                                               *)

Edit(t, f) ==
    /\ form' = [form EXCEPT ![t] = f]
    /\ UNCHANGED <<vars, page, render, post>>

(* A select shows its first option when its value is none of them, and      *)
(* fires onChange for another option than the one it shows.                 *)
Displayed(t) == IF form[t].selected \in Offered(page[t].status)
                THEN form[t].selected ELSE Offers[page[t].status][1]

Select(t, s) ==
    /\ form[t] # NoForm
    /\ s \in Offered(page[t].status) \ {Displayed(t)}
    /\ Edit(t, [form[t] EXCEPT !.selected = s])

TypeAmount(t, a) ==
    /\ form[t] # NoForm
    /\ form[t].selected = "APPROVED"
    /\ a # form[t].amount
    /\ Edit(t, [form[t] EXCEPT !.amount = a])

(* Mutated form: the button is not disabled while the request runs.         *)
PressableAlways(t) == form[t] # NoForm

Pressable(t) == form[t] # NoForm /\ ~form[t].loading

Confirm(t, w) ==
    /\ Pressable(t)
    /\ post[w] = NoPost
    /\ Load(w, page[t].claim, form[t].selected, form[t].amount)
    /\ form' = [form EXCEPT ![t].loading = TRUE]
    /\ post' = [post EXCEPT ![w] =
          [tab |-> t, claim |-> page[t].claim, to |-> form[t].selected, mounted |-> TRUE,
           answer |-> "none", offered |-> form[t].selected \in Offered(page[t].status), row |-> 0]]
    /\ UNCHANGED <<page, render>>

----------------------------------------------------------------------------
(* The answer.                                                             *)

(* The handler of thread w ends with this answer and this row of the        *)
(* history.                                                                 *)
Answered(w, a, row) ==
    /\ post' = IF post[w] = NoPost THEN post ELSE [post EXCEPT ![w].answer = a, ![w].row = row]
    /\ UNCHANGED <<page, render, form>>

(* custom_exception_handler: whatever the handler raises for a request that *)
(* it refuses is answered in one form, which the client takes for an error. *)
ErrorAnswer(w) == Answered(w, "error", 0)

Serve(w) ==
    \/ Refuse(w) /\ ErrorAnswer(w)
    \/ Lock(w) /\ UNCHANGED pageVars
    \/ Commit(w) /\ Answered(w, "ok", Len(history[job[w].claim]) + 1)
    \/ Abandon(w) /\ Answered(w, "error", 0)

(* The state of the form a request belongs to, if that form is still there. *)
FormAfter(w, f) == form' = IF post[w].mounted THEN [form EXCEPT ![post[w].tab] = f] ELSE form

(* Mutated form: the message names what the select holds by now.            *)
ToastOfSelected(w) == IF post[w].mounted THEN form[post[w].tab].selected ELSE post[w].to

(* "Claim moved to ...": the status the handler was called with.            *)
ToastOf(w) == post[w].to

(* router.refresh(): the page the tab shows, or is being rendered, is       *)
(* rendered again.                                                          *)
Refreshed(t) ==
    IF render[t] = NoRender /\ page[t] = NoPage THEN render
    ELSE [render EXCEPT ![t] =
            [claim |-> IF render[t] # NoRender THEN render[t].claim ELSE page[t].claim,
             status |-> Unread]]

Succeed(w) ==
    LET t == post[w].tab IN
    /\ post[w] # NoPost /\ post[w].answer = "ok"
    /\ render' = Refreshed(t)
    /\ FormAfter(w, [form[t] EXCEPT !.loading = FALSE])
    /\ post' = [post EXCEPT ![w] = NoPost]
    /\ UNCHANGED <<vars, page>>

(* An error, or no answer: "Failed to transition claim".                    *)
Fail(w) ==
    /\ post[w] # NoPost
    /\ FormAfter(w, [form[post[w].tab] EXCEPT !.loading = FALSE])
    /\ post' = [post EXCEPT ![w] = NoPost]
    /\ UNCHANGED <<vars, page, render>>

----------------------------------------------------------------------------
(* Another client of the API, in any state of the claim.  Left out is what  *)
(* the handler ignores, an amount that comes with another status than       *)
(* APPROVED (the form does send one), and FILED, which is always refused.   *)
OtherClient(w) ==
    /\ post[w] = NoPost
    /\ \E c \in Claims, to \in Status \ {"FILED"}, a \in Amounts \cup {NoAmount} :
          /\ to # "APPROVED" => a = NoAmount
          /\ Load(w, c, to, a)
    /\ UNCHANGED pageVars

UseTab(t) ==
    \/ \E c \in Claims : Visit(t, c)
    \/ ReadStatus(t) \/ Show(t) \/ Leave(t) \/ Reload(t)
    \/ \E s \in Status : Select(t, s)
    \/ \E a \in Amounts \cup {NoAmount} : TypeAmount(t, a)
    \/ \E w \in Workers : Confirm(t, w)

PageNext ==
    \/ \E t \in Tabs : UseTab(t)
    \/ \E w \in Workers : Serve(w) \/ Succeed(w) \/ Fail(w) \/ OtherClient(w)

PageSpec == Init /\ PageInit /\ [][PageNext]_claimPageVars

----------------------------------------------------------------------------
(* Properties.                                                             *)

PageTypeOK ==
    /\ page \in [Tabs -> Page \cup {NoPage}]
    /\ render \in [Tabs -> Render \cup {NoRender}]
    /\ form \in [Tabs -> Form \cup {NoForm}]
    /\ post \in [Workers -> Post \cup {NoPost}]
    /\ \A t \in Tabs : form[t] # NoForm => page[t] # NoPage
    /\ \A w \in Workers : post[w] # NoPost /\ post[w].mounted => form[post[w].tab] # NoForm

PostsOf(t) == {w \in Workers : post[w] # NoPost /\ post[w].tab = t /\ post[w].mounted}

(* A form says "Saving" exactly while one request of its own has no answer: *)
(* it never has two of them under way, however it is closed, opened and     *)
(* refreshed, and no lost answer leaves its button disabled for good.       *)
SavingMeansOneRequest ==
    \A t \in Tabs :
        /\ \A v, w \in PostsOf(t) : v = w
        /\ form[t] # NoForm => (form[t].loading <=> PostsOf(t) # {})

(* What "Claim moved to ..." tells is in the history, committed by the very *)
(* request it answers, although the select, the page and the claim itself   *)
(* may have changed between the click and the answer.                       *)
ToastsAreTrue ==
    \A w \in Workers : post[w] # NoPost /\ post[w].answer = "ok" =>
        /\ post[w].row \in DOMAIN history[post[w].claim]
        /\ history[post[w].claim][post[w].row].to = ToastOf(w)

(* The two statements of a page need not see the same tables, but a page    *)
(* never shows a status that its own history does not explain: what         *)
(* committed in between is at most history ahead of the status.             *)
PageExplainsItsStatus ==
    \A t \in Tabs : page[t] # NoPage =>
        \E n \in 1..page[t].rows : history[page[t].claim][n].to = page[t].status

(* A request that was overtaken left its mark: a row that does not start    *)
(* where the row before it ends.                                            *)
WentAstray(c, n) == \E i \in 2..n : history[c][i].from # history[c][i - 1].to

(* The form keeps the status it asked for last, although its page, once     *)
(* refreshed, offers others and shows one of them as chosen.  What such a   *)
(* form asks for moves no claim, unless overlapping requests have taken the *)
(* claim back before.                                                       *)
StaleFormMovesNothing ==
    \A w \in Workers : post[w] # NoPost /\ post[w].answer = "ok" /\ ~post[w].offered =>
        WentAstray(post[w].claim, post[w].row)
=============================================================================
