-------------------------- MODULE ClaimPage_proofs --------------------------
(***************************************************************************)
(* Theorems of ClaimPage for any number of tabs, threads and claims.  The  *)
(* threads keep what is proved of them in ClaimTransition_proofs: every    *)
(* step of the pages is a step of theirs or none.                          *)
(***************************************************************************)
EXTENDS ClaimPage, ClaimTransition_proofs

(* What the page offers are statuses, the first one included.               *)
LEMMA OfferedAreStatuses ==
    ASSUME NEW s \in Status
    PROVE  /\ Offers[s] # <<>> => Offers[s][1] \in Status
           /\ Offered(s) \subseteq Status
<1>1. Offers[s] # <<>> => Offers[s][1] \in Status
  BY DEF Offers, Status
<1>2. \A i \in DOMAIN Offers[s] : Offers[s][i] \in Status
  BY DEF Offers, Status
<1>3. QED
  BY <1>1, <1>2 DEF Offered

(* Every step of a tab or of another client is a step of the handler's      *)
(* threads or leaves them alone.                                            *)
LEMMA PageStepIsThreadStep ==
    ASSUME PageTypeOK, [PageNext]_claimPageVars
    PROVE  [Next]_vars
<1>1. ASSUME NEW w \in Workers, Serve(w)
      PROVE  Next
  BY <1>1 DEF Serve, ErrorAnswer, Next
<1>2. ASSUME NEW w \in Workers, OtherClient(w)
      PROVE  Next
  BY <1>2 DEF OtherClient, Next
<1>3. ASSUME NEW w \in Workers, Succeed(w) \/ Fail(w)
      PROVE  UNCHANGED vars
  BY <1>3 DEF Succeed, Fail
<1>4. ASSUME NEW t \in Tabs, NEW w \in Workers, Confirm(t, w)
      PROVE  Next
  <2>1. form[t] \in Form /\ page[t] \in Page
    BY <1>4 DEF Confirm, Pressable, PageTypeOK
  <2>2. QED
    BY <1>4, <2>1 DEF Confirm, Next, Form, Page
<1>5. ASSUME NEW t \in Tabs, UseTab(t), \A w \in Workers : ~Confirm(t, w)
      PROVE  UNCHANGED vars
  BY <1>5 DEF UseTab, Visit, ReadStatus, Show, Leave, Reload, Select, TypeAmount, Edit
<1>6. CASE UNCHANGED claimPageVars
  BY <1>6 DEF claimPageVars
<1>7. QED
  BY <1>1, <1>2, <1>3, <1>4, <1>5, <1>6 DEF PageNext

----------------------------------------------------------------------------
(* Types.                                                                  *)

(* A form rendered with a page has its type, the one that was there as well *)
(* as a new one.                                                            *)
LEMMA FormOnType ==
    ASSUME PageTypeOK, NEW t \in Tabs, NEW p \in Page
    PROVE  FormOn(t, p) \in Form \cup {NoForm}
<1>1. p.status \in Status
  BY DEF Page
<1>2. Offers[p.status] # <<>> => NewForm(p) \in Form
  BY <1>1, OfferedAreStatuses DEF NewForm, Form
<1>3. QED
  BY <1>2 DEF FormOn, PageTypeOK

(* A request that is orphaned keeps its type.                               *)
LEMMA OrphanedType ==
    ASSUME PageTypeOK, NEW t \in Tabs
    PROVE  Orphaned(t) \in [Workers -> Post \cup {NoPost}]
<1>1. ASSUME NEW w \in Workers, post[w] # NoPost
      PROVE  [post[w] EXCEPT !.mounted = FALSE] \in Post
  <2>1. post[w] \in Post
    BY <1>1 DEF PageTypeOK
  <2>2. QED
    BY <2>1 DEF Post
<1>2. QED
  BY <1>1 DEF Orphaned, PageTypeOK

(* What an orphaned request keeps, and that it is of the form no more.      *)
LEMMA OrphanedKeeps ==
    ASSUME PageTypeOK, NEW t \in Tabs, NEW w \in Workers
    PROVE  /\ post[w] = NoPost => Orphaned(t)[w] = NoPost
           /\ post[w] # NoPost =>
                /\ Orphaned(t)[w] # NoPost
                /\ Orphaned(t)[w].tab = post[w].tab
                /\ Orphaned(t)[w].claim = post[w].claim
                /\ Orphaned(t)[w].to = post[w].to
                /\ Orphaned(t)[w].answer = post[w].answer
                /\ Orphaned(t)[w].row = post[w].row
                /\ (Orphaned(t)[w].mounted <=> post[w].mounted /\ post[w].tab # t)
<1>1. post[w] = NoPost => Orphaned(t)[w] = NoPost
  BY DEF Orphaned
<1>2. ASSUME post[w] # NoPost, post[w].tab = t
      PROVE  Orphaned(t)[w] = [post[w] EXCEPT !.mounted = FALSE]
  BY <1>2 DEF Orphaned
<1>3. ASSUME post[w] # NoPost, post[w].tab # t
      PROVE  Orphaned(t)[w] = post[w]
  BY <1>3 DEF Orphaned
<1>4. ASSUME post[w] # NoPost
      PROVE  /\ post[w] \in Post
             /\ [post[w] EXCEPT !.mounted = FALSE] \in Post
             /\ post[w].mounted \in BOOLEAN
  <2>1. post[w] \in Post
    BY <1>4 DEF PageTypeOK
  <2>2. QED
    BY <2>1 DEF Post
<1>5. QED
  BY <1>1, <1>2, <1>3, <1>4, PageAssumption DEF Post

(* A page as it is rendered has its type: what was read is a row of the     *)
(* table and the number of rows of its history.                             *)
LEMMA RenderedType ==
    ASSUME TypeOK, PageTypeOK, NEW t \in Tabs,
           render[t] # NoRender, render[t].status # Unread
    PROVE  Rendered(t) \in Page
<1>1. render[t] \in Render
  BY DEF PageTypeOK
<1>2. render[t].claim \in Claims /\ render[t].status \in Status
  BY <1>1 DEF Render
<1>3. Len(history[render[t].claim]) \in Nat
  BY <1>2 DEF TypeOK
<1>4. QED
  BY <1>2, <1>3 DEF Rendered, Page

(* The tabs have their types at the start.                                  *)
LEMMA PageTypeInit ==
    ASSUME PageInit
    PROVE  PageTypeOK
BY DEF PageInit, PageTypeOK

(* Every step keeps the types of the tabs, by cases on the action.          *)
LEMMA PageTypeStep ==
    ASSUME TypeOK, PageTypeOK, [PageNext]_claimPageVars
    PROVE  PageTypeOK'
<1> USE DEF PageTypeOK
<1>1. ASSUME NEW t \in Tabs, NEW c \in Claims, Visit(t, c)
      PROVE  PageTypeOK'
  <2>1. [claim |-> c, status |-> Unread] \in Render
    BY DEF Render
  <2>2. QED
    BY <1>1, <2>1 DEF Visit
<1>2. ASSUME NEW t \in Tabs, ReadStatus(t)
      PROVE  PageTypeOK'
  <2>1. render[t] \in Render /\ render[t].claim \in Claims
    BY <1>2 DEF ReadStatus, Render
  <2>2. claim[render[t].claim].status \in Status
    BY <2>1 DEF TypeOK, ClaimRow
  <2>3. [render[t] EXCEPT !.status = claim[render[t].claim].status] \in Render
    BY <2>1, <2>2 DEF Render
  <2>4. QED
    BY <1>2, <2>3 DEF ReadStatus
<1>3. ASSUME NEW t \in Tabs, Show(t)
      PROVE  PageTypeOK'
  <2>1. Rendered(t) \in Page
    BY <1>3, RenderedType DEF Show
  <2>2. FormOn(t, Rendered(t)) \in Form \cup {NoForm}
    BY <2>1, FormOnType
  <2>3. post' \in [Workers -> Post \cup {NoPost}]
    BY <1>3, OrphanedType DEF Show
  <2>4. page' \in [Tabs -> Page \cup {NoPage}] /\ page'[t] # NoPage
        /\ \A u \in Tabs \ {t} : page'[u] = page[u] /\ form'[u] = form[u]
    BY <1>3, <2>1, PageAssumption DEF Show
  <2>5. form' \in [Tabs -> Form \cup {NoForm}] /\ render' \in [Tabs -> Render \cup {NoRender}]
    BY <1>3, <2>2 DEF Show
  <2>6. ASSUME NEW w \in Workers, post'[w] # NoPost, post'[w].mounted
        PROVE  form'[post'[w].tab] # NoForm
    <3>1. CASE FormOn(t, Rendered(t)) = form[t]
      <4>1. post' = post /\ form' = form
        BY <1>3, <3>1 DEF Show
      <4>2. QED
        BY <2>6, <4>1
    <3>2. CASE FormOn(t, Rendered(t)) # form[t]
      <4>1. post' = Orphaned(t)
        BY <1>3, <3>2 DEF Show
      <4>2. post[w] # NoPost /\ post'[w].tab = post[w].tab /\ post[w].mounted /\ post[w].tab # t
        BY <2>6, <4>1, OrphanedKeeps
      <4>3. post[w].tab \in Tabs
        BY <4>2 DEF Post
      <4>4. QED
        BY <2>4, <4>2, <4>3
    <3>3. QED
      BY <3>1, <3>2
  <2>7. QED
    BY <2>3, <2>4, <2>5, <2>6
<1>4. ASSUME NEW t \in Tabs, Leave(t)
      PROVE  PageTypeOK'
  <2>1. ASSUME NEW w \in Workers, post'[w] # NoPost, post'[w].mounted
        PROVE  form'[post'[w].tab] # NoForm
    <3>1. post[w] # NoPost /\ post'[w].tab = post[w].tab /\ post[w].mounted /\ post[w].tab # t
      BY <1>4, <2>1, OrphanedKeeps DEF Leave
    <3>2. QED
      BY <1>4, <3>1 DEF Leave, Post
  <2>2. QED
    BY <1>4, <2>1, OrphanedType DEF Leave
<1>5. ASSUME NEW t \in Tabs, Reload(t)
      PROVE  PageTypeOK'
  <2>1. ASSUME NEW w \in Workers, post'[w] # NoPost
        PROVE  post'[w] = post[w] /\ post[w].tab \in Tabs \ {t}
    <3>1. post'[w] = post[w] /\ post[w].tab # t
      BY <1>5, <2>1 DEF Reload
    <3>2. QED
      BY <2>1, <3>1 DEF Post
  <2>2. form' = [form EXCEPT ![t] = NoForm]
    BY <1>5 DEF Reload
  <2>3. QED
    BY <1>5, <2>1, <2>2 DEF Reload
<1>6. ASSUME NEW t \in Tabs, NEW s \in Status, Select(t, s)
      PROVE  PageTypeOK'
  <2>1. form[t] \in Form
    BY <1>6 DEF Select
  <2>2. [form[t] EXCEPT !.selected = s] \in Form
    BY <2>1 DEF Form
  <2>3. QED
    BY <1>6, <2>2, PageAssumption DEF Select, Edit, Post
<1>7. ASSUME NEW t \in Tabs, NEW a \in Amounts \cup {NoAmount}, TypeAmount(t, a)
      PROVE  PageTypeOK'
  <2>1. form[t] \in Form
    BY <1>7 DEF TypeAmount
  <2>2. [form[t] EXCEPT !.amount = a] \in Form
    BY <2>1 DEF Form
  <2>3. QED
    BY <1>7, <2>2, PageAssumption DEF TypeAmount, Edit, Post
<1>8. ASSUME NEW t \in Tabs, NEW w \in Workers, Confirm(t, w)
      PROVE  PageTypeOK'
  <2>1. form[t] \in Form /\ page[t] \in Page
    BY <1>8 DEF Confirm, Pressable
  <2>2. [form[t] EXCEPT !.loading = TRUE] \in Form
    BY <2>1 DEF Form
  <2>3. [tab |-> t, claim |-> page[t].claim, to |-> form[t].selected, mounted |-> TRUE,
         answer |-> "none", offered |-> form[t].selected \in Offered(page[t].status),
         row |-> 0] \in Post
    BY <2>1 DEF Post, Form, Page
  <2>4. ASSUME NEW v \in Workers, post'[v] # NoPost, post'[v].mounted
        PROVE  form'[post'[v].tab] # NoForm
    <3>1. \A u \in Tabs : form[u] # NoForm => form'[u] # NoForm
      BY <1>8, <2>2, PageAssumption DEF Confirm
    <3>2. CASE v = w
      BY <1>8, <3>1, <3>2 DEF Confirm, Pressable
    <3>3. CASE v # w
      <4>1. post'[v] = post[v]
        BY <1>8, <3>3 DEF Confirm
      <4>2. QED
        BY <2>4, <3>1, <4>1 DEF Post
    <3>4. QED
      BY <3>2, <3>3
  <2>5. QED
    BY <1>8, <2>1, <2>2, <2>3, <2>4 DEF Confirm, Pressable
<1>9. ASSUME NEW w \in Workers, NEW a \in {"ok", "error"}, NEW row \in Nat, Answered(w, a, row)
      PROVE  PageTypeOK'
  <2>1. CASE post[w] = NoPost
    BY <1>9, <2>1 DEF Answered
  <2>2. CASE post[w] # NoPost
    <3>1. post[w] \in Post
      BY <2>2
    <3>2. [post[w] EXCEPT !.answer = a, !.row = row] \in Post
      BY <3>1 DEF Post
    <3>3. QED
      BY <1>9, <2>2, <3>2 DEF Answered
  <2>3. QED
    BY <2>1, <2>2
<1>10. ASSUME NEW w \in Workers, Serve(w)
       PROVE  PageTypeOK'
  <2>1. CASE Lock(w) /\ UNCHANGED pageVars
    BY <2>1 DEF pageVars
  <2>2. CASE Answered(w, "error", 0)
    BY <1>9, <2>2
  <2>3. CASE Commit(w) /\ Answered(w, "ok", Len(history[job[w].claim]) + 1)
    <3>1. Len(history[job[w].claim]) + 1 \in Nat
      BY <2>3, CommitEffect DEF TypeOK
    <3>2. QED
      BY <1>9, <2>3, <3>1
  <2>4. QED
    BY <1>10, <2>1, <2>2, <2>3 DEF Serve, ErrorAnswer
<1>11. ASSUME NEW w \in Workers, Succeed(w) \/ Fail(w)
       PROVE  PageTypeOK'
  <2> DEFINE t == post[w].tab
  <2>1. post[w] \in Post /\ t \in Tabs
    BY <1>11 DEF Succeed, Fail, Post
  <2>2. post' \in [Workers -> Post \cup {NoPost}] /\ page' = page
    BY <1>11 DEF Succeed, Fail
  <2>3. render' \in [Tabs -> Render \cup {NoRender}]
    <3>1. Refreshed(t) \in [Tabs -> Render \cup {NoRender}]
      <4> DEFINE r == [claim |-> IF render[t] # NoRender THEN render[t].claim ELSE page[t].claim,
                       status |-> Unread]
      <4>1. ASSUME render[t] # NoRender \/ page[t] # NoPage
            PROVE  r \in Render
        <5>1. render[t] # NoRender => render[t].claim \in Claims
          BY <2>1 DEF Render
        <5>2. page[t] # NoPage => page[t].claim \in Claims
          BY <2>1 DEF Page
        <5>3. QED
          BY <4>1, <5>1, <5>2 DEF Render
      <4>2. QED
        BY <2>1, <4>1 DEF Refreshed
    <3>2. QED
      BY <1>11, <3>1 DEF Succeed, Fail
  <2>4. /\ form' \in [Tabs -> Form \cup {NoForm}]
        /\ \A u \in Tabs : form[u] = NoForm <=> form'[u] = NoForm
    <3>1. CASE post[w].mounted
      <4>1. form[t] \in Form
        BY <1>11, <2>1, <3>1 DEF Succeed, Fail
      <4>2. [form[t] EXCEPT !.loading = FALSE] \in Form
        BY <4>1 DEF Form
      <4>3. form' = [form EXCEPT ![t] = [form[t] EXCEPT !.loading = FALSE]]
        BY <1>11, <3>1 DEF Succeed, Fail, FormAfter
      <4>4. QED
        BY <2>1, <4>1, <4>2, <4>3, PageAssumption
    <3>2. CASE ~post[w].mounted
      BY <1>11, <3>2 DEF Succeed, Fail, FormAfter
    <3>3. QED
      BY <3>1, <3>2
  <2>5. \A v \in Workers : post'[v] # NoPost => post'[v] = post[v]
    BY <1>11 DEF Succeed, Fail
  <2>6. \A v \in Workers : post[v] # NoPost => post[v].tab \in Tabs
    BY DEF Post
  <2>7. QED
    BY <2>2, <2>3, <2>4, <2>5, <2>6
<1>12. ASSUME NEW w \in Workers, OtherClient(w)
       PROVE  PageTypeOK'
  BY <1>12 DEF OtherClient, pageVars
<1>13. CASE UNCHANGED claimPageVars
  BY <1>13 DEF claimPageVars, pageVars
<1>14. QED
  BY <1>1, <1>2, <1>3, <1>4, <1>5, <1>6, <1>7, <1>8, <1>10, <1>11, <1>12, <1>13 DEF PageNext, UseTab

(* The types of the threads and of the pages together.                      *)
LEMMA PageTypes == PageSpec => [](TypeOK /\ PageTypeOK)
<1>1. Init /\ PageInit => TypeOK /\ PageTypeOK
  BY TypeInit, PageTypeInit
<1>2. TypeOK /\ PageTypeOK /\ [PageNext]_claimPageVars => TypeOK' /\ PageTypeOK'
  BY PageTypeStep, PageStepIsThreadStep, TypeStep
<1>3. QED
  BY <1>1, <1>2, PTL DEF PageSpec

(* The variables of the tabs keep their types; in particular a request that *)
(* still belongs to a form finds that form there.                           *)
THEOREM PageTypeCorrect == PageSpec => []PageTypeOK
BY PageTypes, PTL

(* The dashboard with any other clients implements the threads of           *)
(* ClaimTransition: what is proved of these holds of every page.            *)
THEOREM PageUsesTheThreads == PageSpec => Spec
<1>1. PageTypeOK /\ [PageNext]_claimPageVars => [Next]_vars
  BY PageStepIsThreadStep
<1>2. QED
  BY <1>1, PageTypes, PTL DEF PageSpec, Spec

----------------------------------------------------------------------------
(* The form and its requests.                                              *)

(* No step that keeps the forms, and which requests belong to which,        *)
(* disturbs what "Saving" means.                                            *)
LEMMA SameForms ==
    ASSUME PageTypeOK, SavingMeansOneRequest,
           \A t \in Tabs : form'[t] # NoForm => form[t] # NoForm /\ form'[t].loading = form[t].loading,
           \A t \in Tabs : PostsOf(t)' = PostsOf(t)
    PROVE  SavingMeansOneRequest'
BY DEF SavingMeansOneRequest

(* What an answer leaves of the request of a thread as it is.               *)
SameRequest(v) ==
    /\ post'[v] # NoPost <=> post[v] # NoPost
    /\ post[v] # NoPost =>
          /\ post'[v].tab = post[v].tab /\ post'[v].mounted = post[v].mounted
          /\ post'[v].claim = post[v].claim /\ post'[v].to = post[v].to

(* The end of a handler is the answer of one request and changes no other. *)
LEMMA AnsweredKeeps ==
    ASSUME PageTypeOK, NEW w \in Workers, NEW a \in {"ok", "error"}, NEW row \in Nat,
           Answered(w, a, row)
    PROVE  /\ \A v \in Workers : SameRequest(v)
           /\ \A v \in Workers \ {w} : post'[v] = post[v]
           /\ post[w] # NoPost => post'[w].answer = a /\ post'[w].row = row
<1>1. CASE post[w] = NoPost
  BY <1>1 DEF Answered, SameRequest
<1>2. CASE post[w] # NoPost
  <2>1. post[w] \in Post
    BY <1>2 DEF PageTypeOK
  <2>2. [post[w] EXCEPT !.answer = a, !.row = row] \in Post
    BY <2>1 DEF Post
  <2>3. post'[w] = [post[w] EXCEPT !.answer = a, !.row = row]
    BY <1>2 DEF Answered, PageTypeOK
  <2>4. \A v \in Workers \ {w} : post'[v] = post[v]
    BY <1>2 DEF Answered, PageTypeOK
  <2>5. /\ post'[w].tab = post[w].tab /\ post'[w].mounted = post[w].mounted
        /\ post'[w].claim = post[w].claim /\ post'[w].to = post[w].to
        /\ post'[w].answer = a /\ post'[w].row = row
    BY <2>1, <2>3 DEF Post
  <2>6. post'[w] # NoPost
    BY <2>2, <2>3, PageAssumption
  <2>7. QED
    BY <1>2, <2>4, <2>5, <2>6 DEF SameRequest
<1>3. QED
  BY <1>1, <1>2

(* A step keeps the forms and their requests in agreement.                  *)
LEMMA SavingStep ==
    ASSUME TypeOK, PageTypeOK, PageTypeOK', SavingMeansOneRequest, [PageNext]_claimPageVars
    PROVE  SavingMeansOneRequest'
<1>1. ASSUME UNCHANGED <<form, post>>
      PROVE  SavingMeansOneRequest'
  BY <1>1 DEF SavingMeansOneRequest, PostsOf
<1>2. ASSUME NEW t \in Tabs, post' = Orphaned(t),
             \A u \in Tabs \ {t} : form'[u] = form[u],
             form'[t] # NoForm => ~form'[t].loading
      PROVE  SavingMeansOneRequest'
  <2>1. PostsOf(t)' = {}
    BY <1>2, OrphanedKeeps DEF PostsOf
  <2>2. ASSUME NEW u \in Tabs \ {t}
        PROVE  PostsOf(u)' = PostsOf(u)
    <3>1. \A w \in Workers : w \in PostsOf(u)' <=> w \in PostsOf(u)
      BY <1>2, OrphanedKeeps DEF PostsOf
    <3>2. QED
      BY <3>1 DEF PostsOf
  <2>3. QED
    BY <1>2, <2>1, <2>2 DEF SavingMeansOneRequest
<1>3. ASSUME NEW t \in Tabs, Show(t)
      PROVE  SavingMeansOneRequest'
  <2> DEFINE f == FormOn(t, Rendered(t))
  <2>1. CASE f = form[t]
    BY <1>1, <1>3, <2>1 DEF Show, PageTypeOK
  <2>2. CASE f # form[t]
    <3>1. f = NoForm \/ ~f.loading
      BY <2>2 DEF FormOn, NewForm
    <3>2. post' = Orphaned(t) /\ form' = [form EXCEPT ![t] = f]
      BY <1>3, <2>2 DEF Show
    <3> HIDE DEF f
    <3>3. form'[t] = f /\ \A u \in Tabs \ {t} : form'[u] = form[u]
      BY <3>2 DEF PageTypeOK
    <3>4. QED
      BY <1>2, <3>1, <3>2, <3>3
  <2>3. QED
    BY <2>1, <2>2
<1>4. ASSUME NEW t \in Tabs, Leave(t)
      PROVE  SavingMeansOneRequest'
  BY <1>2, <1>4 DEF Leave, PageTypeOK
<1>5. ASSUME NEW t \in Tabs, Reload(t)
      PROVE  SavingMeansOneRequest'
  <2>1. PostsOf(t)' = {}
    BY <1>5 DEF Reload, PostsOf
  <2>2. \A u \in Tabs \ {t} : PostsOf(u)' = PostsOf(u)
    BY <1>5 DEF Reload, PostsOf
  <2>3. form'[t] = NoForm /\ \A u \in Tabs \ {t} : form'[u] = form[u]
    BY <1>5 DEF Reload, PageTypeOK
  <2>4. QED
    BY <2>1, <2>2, <2>3 DEF SavingMeansOneRequest
<1>6. ASSUME NEW t \in Tabs, NEW f \in Form, form[t] # NoForm, f.loading = form[t].loading, Edit(t, f)
      PROVE  SavingMeansOneRequest'
  <2>1. \A u \in Tabs : PostsOf(u)' = PostsOf(u)
    BY <1>6 DEF Edit, PostsOf
  <2>2. \A u \in Tabs : form'[u] # NoForm => form[u] # NoForm /\ form'[u].loading = form[u].loading
    BY <1>6 DEF Edit, PageTypeOK
  <2>3. QED
    BY <2>1, <2>2, SameForms
<1>7. ASSUME NEW t \in Tabs, NEW s \in Status, Select(t, s)
      PROVE  SavingMeansOneRequest'
  <2>1. form[t] \in Form
    BY <1>7 DEF Select, PageTypeOK
  <2>2. /\ [form[t] EXCEPT !.selected = s] \in Form
        /\ [form[t] EXCEPT !.selected = s].loading = form[t].loading
    BY <2>1 DEF Form
  <2>3. QED
    BY <1>6, <1>7, <2>2 DEF Select
<1>8. ASSUME NEW t \in Tabs, NEW a \in Amounts \cup {NoAmount}, TypeAmount(t, a)
      PROVE  SavingMeansOneRequest'
  <2>1. form[t] \in Form
    BY <1>8 DEF TypeAmount, PageTypeOK
  <2>2. /\ [form[t] EXCEPT !.amount = a] \in Form
        /\ [form[t] EXCEPT !.amount = a].loading = form[t].loading
    BY <2>1 DEF Form
  <2>3. QED
    BY <1>6, <1>8, <2>2 DEF TypeAmount
<1>9. ASSUME NEW t \in Tabs, NEW w \in Workers, Confirm(t, w)
      PROVE  SavingMeansOneRequest'
  <2>1. form[t] \in Form /\ ~form[t].loading /\ form[t] # NoForm
    BY <1>9 DEF Confirm, Pressable, PageTypeOK
  <2>2. PostsOf(t) = {}
    BY <2>1 DEF SavingMeansOneRequest
  <2>3. /\ form'[t].loading
        /\ \A u \in Tabs \ {t} : form'[u] = form[u]
    BY <1>9, <2>1 DEF Confirm, PageTypeOK, Form
  <2>4. /\ post'[w] # NoPost /\ post'[w].tab = t /\ post'[w].mounted
        /\ post[w] = NoPost
        /\ \A v \in Workers \ {w} : post'[v] = post[v]
    <3>1. post'[w] \in Post \cup {NoPost}
      BY DEF PageTypeOK
    <3>2. post'[w] = [tab |-> t, claim |-> page[t].claim, to |-> form[t].selected,
                      mounted |-> TRUE, answer |-> "none",
                      offered |-> form[t].selected \in Offered(page[t].status), row |-> 0]
      BY <1>9 DEF Confirm, PageTypeOK
    <3>3. [tab |-> t, claim |-> page[t].claim, to |-> form[t].selected, mounted |-> TRUE,
           answer |-> "none", offered |-> form[t].selected \in Offered(page[t].status),
           row |-> 0] \in Post
      BY <1>9, <2>1 DEF Confirm, Post, Form, Page, PageTypeOK
    <3>4. QED
      BY <1>9, <3>2, <3>3, PageAssumption DEF Confirm, PageTypeOK
  <2>5. PostsOf(t)' = {w}
    BY <2>2, <2>4 DEF PostsOf
  <2>6. \A u \in Tabs \ {t} : PostsOf(u)' = PostsOf(u)
    BY <2>4 DEF PostsOf
  <2>7. QED
    BY <2>3, <2>5, <2>6 DEF SavingMeansOneRequest
<1>10. ASSUME NEW w \in Workers, NEW a \in {"ok", "error"}, NEW row \in Nat, Answered(w, a, row)
       PROVE  SavingMeansOneRequest'
  <2>1. \A v \in Workers : SameRequest(v)
    BY <1>10, AnsweredKeeps
  <2>2. \A t \in Tabs : PostsOf(t)' = PostsOf(t)
    BY <2>1 DEF SameRequest, PostsOf
  <2>3. form' = form
    BY <1>10 DEF Answered
  <2>4. QED
    BY <2>2, <2>3, SameForms
<1>11. ASSUME NEW w \in Workers, Serve(w)
       PROVE  SavingMeansOneRequest'
  <2>1. CASE Lock(w) /\ UNCHANGED pageVars
    BY <1>1, <2>1 DEF pageVars
  <2>2. CASE Answered(w, "error", 0)
    BY <1>10, <2>2
  <2>3. CASE Commit(w) /\ Answered(w, "ok", Len(history[job[w].claim]) + 1)
    <3>1. Len(history[job[w].claim]) + 1 \in Nat
      BY <2>3, CommitEffect DEF TypeOK
    <3>2. QED
      BY <1>10, <2>3, <3>1
  <2>4. QED
    BY <1>11, <2>1, <2>2, <2>3 DEF Serve, ErrorAnswer
<1>12. ASSUME NEW w \in Workers, Succeed(w) \/ Fail(w)
       PROVE  SavingMeansOneRequest'
  <2>0. PICK t \in Tabs : t = post[w].tab
    BY <1>12 DEF Succeed, Fail, PageTypeOK, Post
  <2>1. /\ post[w] \in Post /\ post[w].tab = t /\ post[w] # NoPost
        /\ post'[w] = NoPost /\ \A v \in Workers \ {w} : post'[v] = post[v]
    BY <1>12, <2>0 DEF Succeed, Fail, PageTypeOK, Post
  <2>2. CASE post[w].mounted
    <3>1. form[t] \in Form /\ form[t] # NoForm
      BY <2>1, <2>2 DEF PageTypeOK
    <3>2. form' = [form EXCEPT ![t] = [form[t] EXCEPT !.loading = FALSE]]
      BY <1>12, <2>0, <2>2 DEF Succeed, Fail, FormAfter
    <3>3. ~form'[t].loading /\ \A u \in Tabs \ {t} : form'[u] = form[u]
      BY <2>1, <3>1, <3>2 DEF PageTypeOK, Form
    <3>4. PostsOf(t)' = {}
      <4>1. w \in PostsOf(t)
        BY <2>1, <2>2 DEF PostsOf
      <4>2. \A v \in PostsOf(t) : v = w
        BY <4>1 DEF SavingMeansOneRequest
      <4>3. QED
        BY <2>1, <4>2 DEF PostsOf
    <3>5. \A u \in Tabs \ {t} : PostsOf(u)' = PostsOf(u)
      BY <2>1 DEF PostsOf
    <3>6. QED
      BY <3>3, <3>4, <3>5 DEF SavingMeansOneRequest
  <2>3. CASE ~post[w].mounted
    <3>1. form' = form
      BY <1>12, <2>3 DEF Succeed, Fail, FormAfter
    <3>2. \A u \in Tabs : PostsOf(u)' = PostsOf(u)
      BY <2>1, <2>3 DEF PostsOf
    <3>3. QED
      BY <3>1, <3>2, SameForms
  <2>4. QED
    BY <2>2, <2>3
<1>13. QED
  BY <1>1, <1>3, <1>4, <1>5, <1>7, <1>8, <1>9, <1>11, <1>12
     DEF PageNext, UseTab, Visit, ReadStatus, OtherClient, pageVars, claimPageVars

(* A form never has two requests under way, and says "Saving" exactly while *)
(* it has one (handleTransition sets loading and clears it in its finally). *)
THEOREM SavingIsOneRequest == PageSpec => []SavingMeansOneRequest
<1>1. PageInit => SavingMeansOneRequest
  BY DEF PageInit, SavingMeansOneRequest, PostsOf
<1>2. /\ TypeOK /\ PageTypeOK /\ PageTypeOK' /\ SavingMeansOneRequest
      /\ [PageNext]_claimPageVars
      => SavingMeansOneRequest'
  BY SavingStep
<1>3. QED
  BY <1>1, <1>2, PageTypes, PTL DEF PageSpec

----------------------------------------------------------------------------
(* What the pages and the messages tell of the history.                    *)

(* The history of a claim only grows.                                       *)
LEMMA HistoryGrows ==
    ASSUME TypeOK, [Next]_vars, NEW c \in Claims
    PROVE  /\ Len(history[c]) \in Nat /\ Len(history'[c]) \in Nat
           /\ Len(history[c]) <= Len(history'[c])
           /\ DOMAIN history[c] = 1..Len(history[c])
           /\ DOMAIN history'[c] = 1..Len(history'[c])
           /\ \A i \in 1..Len(history[c]) : history'[c][i] = history[c][i]
<1>0. history[c] \in Seq(HistoryRow)
  BY DEF TypeOK
<1>1. CASE UNCHANGED tables
  BY <1>0, <1>1 DEF tables
<1>2. ASSUME NEW w \in Workers, Commit(w)
      PROVE  history'[c] = history[c] \/ \E h \in HistoryRow : history'[c] = Append(history[c], h)
  <2>1. CASE c = job[w].claim
    BY <1>2, <2>1, CommitEffect, WrittenType
  <2>2. CASE c # job[w].claim
    BY <1>2, <2>2, CommitEffect
  <2>3. QED
    BY <2>1, <2>2
<1>3. CASE history'[c] = history[c]
  BY <1>0, <1>3
<1>4. ASSUME NEW h \in HistoryRow, history'[c] = Append(history[c], h)
      PROVE  /\ Len(history[c]) \in Nat /\ Len(history'[c]) \in Nat
             /\ Len(history[c]) <= Len(history'[c])
             /\ DOMAIN history[c] = 1..Len(history[c])
             /\ DOMAIN history'[c] = 1..Len(history'[c])
             /\ \A i \in 1..Len(history[c]) : history'[c][i] = history[c][i]
  BY <1>0, <1>4
<1>5. QED
  BY <1>1, <1>2, <1>3, <1>4, CommitOrNoWrite

(* The thread of a request of a tab works on what the tab asked for.        *)
ServedAsAsked ==
    \A w \in Workers : post[w] # NoPost /\ pc[w] # "idle" =>
        job[w].claim = post[w].claim /\ job[w].to = post[w].to

(* A status that was read for a page is in the history by then.             *)
ReadIsExplained ==
    \A t \in Tabs : render[t] # NoRender /\ render[t].status # Unread =>
        \E n \in DOMAIN history[render[t].claim] :
            history[render[t].claim][n].to = render[t].status

ShownRowsExist ==
    \A t \in Tabs : page[t] # NoPage => page[t].rows <= Len(history[page[t].claim])

Told == ServedAsAsked /\ ToastsAreTrue

Shown == ReadIsExplained /\ ShownRowsExist /\ PageExplainsItsStatus

(* Steps that move no thread and keep the requests, or end them, keep what  *)
(* the messages tell.                                                       *)
LEMMA SameRequestsTell ==
    ASSUME PageTypeOK, Told, UNCHANGED vars,
           \A w \in Workers : post'[w] # NoPost =>
              /\ post[w] # NoPost /\ post'[w].claim = post[w].claim /\ post'[w].to = post[w].to
              /\ post'[w].answer = post[w].answer /\ post'[w].row = post[w].row
    PROVE  Told'
BY DEF Told, ServedAsAsked, ToastsAreTrue, ToastOf, vars

(* A step leaves every request told what it committed.                      *)
LEMMA ToldStep ==
    ASSUME IInv, PageTypeOK, Told, [PageNext]_claimPageVars
    PROVE  Told'
<1>0. TypeOK /\ [Next]_vars
  BY PageStepIsThreadStep DEF IInv
<1>1. ASSUME UNCHANGED <<vars, post>>
      PROVE  Told'
  BY <1>1, SameRequestsTell
<1>2. ASSUME NEW t \in Tabs, post' = post \/ post' = Orphaned(t), UNCHANGED vars
      PROVE  Told'
  BY <1>1, <1>2, SameRequestsTell, OrphanedKeeps
<1>3. ASSUME NEW t \in Tabs, Reload(t)
      PROVE  Told'
  BY <1>3, SameRequestsTell DEF Reload
<1>4. ASSUME NEW w \in Workers, Succeed(w) \/ Fail(w)
      PROVE  Told'
  BY <1>4, SameRequestsTell DEF Succeed, Fail, PageTypeOK
<1>5. ASSUME NEW w \in Workers, NEW c \in Claims, NEW to \in Status,
             NEW a \in Amounts \cup {NoAmount}, Load(w, c, to, a), post[w] = NoPost,
             \A v \in Workers \ {w} : post'[v] = post[v],
             \/ post'[w] = NoPost
             \/ post'[w].claim = c /\ post'[w].to = to /\ post'[w].answer = "none"
      PROVE  Told'
  <2>1. /\ job'[w].claim = c /\ job'[w].to = to
        /\ \A v \in Workers \ {w} : pc'[v] = pc[v] /\ job'[v] = job[v]
        /\ history' = history
    BY <1>0, <1>5 DEF Load, tables, TypeOK
  <2>2. ServedAsAsked'
    BY <1>5, <2>1 DEF ServedAsAsked, Told
  <2>3. ToastsAreTrue'
    BY <1>5, <2>1 DEF ToastsAreTrue, ToastOf, Told
  <2>4. QED
    BY <2>2, <2>3 DEF Told
<1>6. ASSUME NEW t \in Tabs, NEW w \in Workers, Confirm(t, w)
      PROVE  Told'
  <2>1. form[t] \in Form /\ page[t] \in Page
    BY <1>6 DEF Confirm, Pressable, PageTypeOK
  <2>2. page[t].claim \in Claims /\ form[t].selected \in Status
        /\ form[t].amount \in Amounts \cup {NoAmount}
    BY <2>1 DEF Form, Page
  <2>3. /\ post'[w].claim = page[t].claim /\ post'[w].to = form[t].selected
        /\ post'[w].answer = "none" /\ \A v \in Workers \ {w} : post'[v] = post[v]
    BY <1>6 DEF Confirm, PageTypeOK
  <2>4. Load(w, page[t].claim, form[t].selected, form[t].amount) /\ post[w] = NoPost
    BY <1>6 DEF Confirm
  <2>5. QED
    BY <1>5, <2>2, <2>3, <2>4
<1>7. ASSUME NEW w \in Workers, OtherClient(w)
      PROVE  Told'
  <2>1. post[w] = NoPost /\ post' = post
    BY <1>7 DEF OtherClient, pageVars
  <2>2. PICK c \in Claims, to \in Status, a \in Amounts \cup {NoAmount} : Load(w, c, to, a)
    BY <1>7 DEF OtherClient
  <2>3. QED
    BY <1>5, <2>1, <2>2
<1>8. ASSUME NEW w \in Workers, Lock(w), UNCHANGED post
      PROVE  Told'
  <2>1. job[w] \in Job
    BY <1>8 DEF Lock, IInv, TypeOK
  <2>2. /\ pc[w] # "idle" /\ history' = history
        /\ job'[w].claim = job[w].claim /\ job'[w].to = job[w].to
        /\ \A v \in Workers \ {w} : pc'[v] = pc[v] /\ job'[v] = job[v]
    BY <1>8, <2>1 DEF Lock, tables, IInv, TypeOK, Job
  <2>3. QED
    BY <1>8, <2>2 DEF Told, ServedAsAsked, ToastsAreTrue, ToastOf
<1>9. ASSUME NEW w \in Workers, NEW a \in {"ok", "error"}, NEW row \in Nat,
             Answered(w, a, row), Answer(w),
             a = "ok" => Commit(w) /\ row = Len(history[job[w].claim]) + 1
      PROVE  Told'
  <2>1. /\ \A v \in Workers : SameRequest(v)
        /\ \A v \in Workers \ {w} : post'[v] = post[v]
        /\ post[w] # NoPost => post'[w].answer = a /\ post'[w].row = row
    BY <1>9, AnsweredKeeps
  <2>2. /\ pc'[w] = "idle"
        /\ \A v \in Workers \ {w} : pc'[v] = pc[v] /\ job'[v] = job[v]
    BY <1>0, <1>9 DEF Answer, TypeOK
  <2>3. ServedAsAsked'
    BY <2>1, <2>2 DEF Told, ServedAsAsked
  <2>4. ASSUME NEW v \in Workers, post'[v] # NoPost, post'[v].answer = "ok"
        PROVE  /\ post'[v].row \in DOMAIN history'[post'[v].claim]
               /\ history'[post'[v].claim][post'[v].row].to = post'[v].to
    <3>1. /\ post[v] # NoPost /\ post'[v].claim = post[v].claim /\ post'[v].to = post[v].to
          /\ post[v].claim \in Claims
      <4>1. post[v] # NoPost /\ post'[v].claim = post[v].claim /\ post'[v].to = post[v].to
        BY <2>1, <2>4 DEF SameRequest
      <4>2. post[v] \in Post
        BY <4>1 DEF PageTypeOK
      <4>3. QED
        BY <4>1, <4>2 DEF Post
    <3>2. CASE v = w
      <4>1. Commit(w) /\ post'[w].row = Len(history[job[w].claim]) + 1
        BY <1>9, <2>1, <2>4, <3>1, <3>2
      <4>2. pc[w] # "idle"
        BY <4>1 DEF Commit
      <4>3. job[w].claim = post[w].claim /\ job[w].to = post[w].to
        BY <3>1, <3>2, <4>2 DEF Told, ServedAsAsked
      <4>4. PICK d : d = job[w].claim
        OBVIOUS
      <4>5. /\ Len(history[d]) \in Nat /\ DOMAIN history'[d] = 1..(Len(history[d]) + 1)
            /\ history'[d][Len(history[d]) + 1].to = job[w].to
        BY <4>1, <4>4, CommitAppends
      <4>6. QED
        BY <3>1, <3>2, <4>1, <4>3, <4>4, <4>5
    <3>3. CASE v # w
      <4>1. post'[v] = post[v]
        BY <2>1, <3>3
      <4>2. /\ post[v].row \in DOMAIN history[post[v].claim]
            /\ history[post[v].claim][post[v].row].to = post[v].to
        BY <2>4, <3>1, <4>1 DEF Told, ToastsAreTrue, ToastOf
      <4>3. QED
        BY <1>0, <3>1, <4>1, <4>2, HistoryGrows
    <3>4. QED
      BY <3>2, <3>3
  <2>5. ToastsAreTrue'
    BY <2>4 DEF ToastsAreTrue, ToastOf
  <2>6. QED
    BY <2>3, <2>5 DEF Told
<1>10. ASSUME NEW w \in Workers, Serve(w)
       PROVE  Told'
  <2>1. CASE Refuse(w) /\ Answered(w, "error", 0)
    BY <1>9, <2>1 DEF Refuse
  <2>2. CASE Lock(w) /\ UNCHANGED pageVars
    BY <1>8, <2>2 DEF pageVars
  <2>3. CASE Commit(w) /\ Answered(w, "ok", Len(history[job[w].claim]) + 1)
    <3>1. Len(history[job[w].claim]) + 1 \in Nat
      BY <1>0, <2>3, CommitEffect DEF TypeOK
    <3>2. QED
      BY <1>9, <2>3, <3>1 DEF Commit
  <2>4. CASE Abandon(w) /\ Answered(w, "error", 0)
    BY <1>9, <2>4 DEF Abandon
  <2>5. QED
    BY <1>10, <2>1, <2>2, <2>3, <2>4 DEF Serve, ErrorAnswer
<1>11. QED
  BY <1>1, <1>2, <1>3, <1>4, <1>6, <1>7, <1>10
     DEF PageNext, UseTab, Visit, ReadStatus, Show, Leave, Select, TypeAmount, Edit,
         claimPageVars, pageVars

(* "Claim moved to ..." is never wrong: the very request that is answered   *)
(* committed a row with that status (the toast of handleTransition names    *)
(* the status it was called with).                                          *)
THEOREM MessagesAreTrue == PageSpec => []ToastsAreTrue
<1>1. PageInit => Told
  BY DEF PageInit, Told, ServedAsAsked, ToastsAreTrue
<1>2. IInv /\ PageTypeOK /\ Told /\ [PageNext]_claimPageVars => Told'
  BY ToldStep
<1>3. Told => ToastsAreTrue
  BY DEF Told
<1>4. QED
  BY <1>1, <1>2, <1>3, PageTypes, PageUsesTheThreads, Inductive, PTL DEF PageSpec

(* What a page that is there says stays explained as the history grows.     *)
LEMMA ExplainedStays ==
    ASSUME TypeOK, [Next]_vars, NEW c \in Claims, NEW s, NEW r \in Nat
    PROVE  /\ r <= Len(history[c]) =>
                 /\ r <= Len(history'[c])
                 /\ (\E n \in 1..r : history[c][n].to = s) => \E n \in 1..r : history'[c][n].to = s
           /\ (\E n \in DOMAIN history[c] : history[c][n].to = s)
                 => \E n \in DOMAIN history'[c] : history'[c][n].to = s
<1>1. /\ Len(history[c]) \in Nat /\ Len(history'[c]) \in Nat
      /\ Len(history[c]) <= Len(history'[c])
      /\ DOMAIN history[c] = 1..Len(history[c])
      /\ DOMAIN history'[c] = 1..Len(history'[c])
      /\ \A i \in 1..Len(history[c]) : history'[c][i] = history[c][i]
  BY HistoryGrows
<1>2. QED
  BY <1>1

(* A step shows no status without a row of the history that explains it.    *)
LEMMA ShownStep ==
    ASSUME IInv, PageTypeOK, Shown, [PageNext]_claimPageVars
    PROVE  Shown'
<1>0. TypeOK /\ [Next]_vars
  BY PageStepIsThreadStep DEF IInv
<1>1. ASSUME \A t \in Tabs : render'[t] # NoRender /\ render'[t].status # Unread => render'[t] = render[t],
             \A t \in Tabs : page'[t] # NoPage => page'[t] = page[t]
      PROVE  Shown'
  <2>1. ASSUME NEW t \in Tabs, render'[t] # NoRender, render'[t].status # Unread
        PROVE  \E n \in DOMAIN history'[render'[t].claim] :
                  history'[render'[t].claim][n].to = render'[t].status
    <3>1. render'[t] = render[t] /\ render[t] \in Render
      BY <1>1, <2>1 DEF PageTypeOK
    <3>2. render[t].claim \in Claims
      BY <3>1 DEF Render
    <3>3. \E n \in DOMAIN history[render[t].claim] :
             history[render[t].claim][n].to = render[t].status
      BY <2>1, <3>1 DEF Shown, ReadIsExplained
    <3>4. PICK s : s = render[t].status
      OBVIOUS
    <3>5. QED
      BY <1>0, <3>1, <3>2, <3>3, <3>4, ExplainedStays
  <2>2. ASSUME NEW t \in Tabs, page'[t] # NoPage
        PROVE  /\ page'[t].rows <= Len(history'[page'[t].claim])
               /\ \E n \in 1..page'[t].rows : history'[page'[t].claim][n].to = page'[t].status
    <3>1. page'[t] = page[t] /\ page[t] \in Page
      BY <1>1, <2>2 DEF PageTypeOK
    <3>2. page[t].claim \in Claims /\ page[t].rows \in Nat
      BY <3>1 DEF Page
    <3>3. /\ page[t].rows <= Len(history[page[t].claim])
          /\ \E n \in 1..page[t].rows : history[page[t].claim][n].to = page[t].status
      BY <2>2, <3>1 DEF Shown, ShownRowsExist, PageExplainsItsStatus
    <3>4. PICK c \in Claims, r \in Nat : c = page[t].claim /\ r = page[t].rows
      BY <3>2
    <3>5. PICK s : s = page[t].status
      OBVIOUS
    <3>6. r <= Len(history[c]) /\ \E n \in 1..r : history[c][n].to = s
      BY <3>3, <3>4, <3>5
    <3>7. r <= Len(history'[c]) /\ \E n \in 1..r : history'[c][n].to = s
      BY <1>0, <3>6, ExplainedStays
    <3>8. QED
      BY <3>1, <3>4, <3>5, <3>7
  <2>3. QED
    BY <2>1, <2>2 DEF Shown, ReadIsExplained, ShownRowsExist, PageExplainsItsStatus
<1>2. ASSUME NEW t \in Tabs, ReadStatus(t)
      PROVE  Shown'
  <2>1. render[t] \in Render /\ render[t].claim \in Claims
    BY <1>2 DEF ReadStatus, PageTypeOK, Render
  <2>2. /\ render'[t].claim = render[t].claim
        /\ render'[t].status = claim[render[t].claim].status
        /\ \A u \in Tabs \ {t} : render'[u] = render[u]
        /\ page' = page /\ history' = history
    BY <1>2, <2>1 DEF ReadStatus, PageTypeOK, Render, vars
  <2>3. history[render[t].claim] \in Seq(HistoryRow)
    BY <2>1 DEF IInv, TypeOK
  <2>4. /\ Len(history[render[t].claim]) \in DOMAIN history[render[t].claim]
        /\ history[render[t].claim][Len(history[render[t].claim])].to
              = claim[render[t].claim].status
    BY <2>1, <2>3 DEF IInv, HistoryEndsInStatus
  <2>5. QED
    BY <2>2, <2>4 DEF Shown, ReadIsExplained, ShownRowsExist, PageExplainsItsStatus
<1>3. ASSUME NEW t \in Tabs, Show(t)
      PROVE  Shown'
  <2>1. /\ render[t] # NoRender /\ render[t].status # Unread
        /\ render[t] \in Render /\ render[t].claim \in Claims
    BY <1>3 DEF Show, PageTypeOK, Render
  <2>2. /\ page'[t] = Rendered(t) /\ render'[t] = NoRender
        /\ \A u \in Tabs \ {t} : page'[u] = page[u] /\ render'[u] = render[u]
        /\ history' = history
    BY <1>3 DEF Show, PageTypeOK, vars
  <2>3. /\ page'[t].claim = render[t].claim /\ page'[t].status = render[t].status
        /\ page'[t].rows = Len(history[render[t].claim])
    BY <2>2 DEF Rendered
  <2>4. history[render[t].claim] \in Seq(HistoryRow)
    BY <2>1 DEF IInv, TypeOK
  <2>5. /\ Len(history[render[t].claim]) \in Nat
        /\ DOMAIN history[render[t].claim] = 1..Len(history[render[t].claim])
        /\ \E n \in DOMAIN history[render[t].claim] :
              history[render[t].claim][n].to = render[t].status
    BY <2>1, <2>4 DEF Shown, ReadIsExplained
  <2>6. ReadIsExplained'
    BY <2>2 DEF Shown, ReadIsExplained
  <2>7. ShownRowsExist' /\ PageExplainsItsStatus'
    <3> SUFFICES ASSUME NEW u \in Tabs, page'[u] # NoPage
                 PROVE  /\ page'[u].rows <= Len(history[page'[u].claim])
                        /\ \E n \in 1..page'[u].rows : history[page'[u].claim][n].to = page'[u].status
      BY <2>2 DEF ShownRowsExist, PageExplainsItsStatus
    <3>1. CASE u = t
      BY <2>3, <2>5, <3>1
    <3>2. CASE u # t
      BY <2>2, <3>2 DEF Shown, ShownRowsExist, PageExplainsItsStatus
    <3>3. QED
      BY <3>1, <3>2
  <2>8. QED
    BY <2>6, <2>7 DEF Shown
<1>4. ASSUME NEW w \in Workers, Succeed(w)
      PROVE  Shown'
  <2> DEFINE t == post[w].tab
  <2>1. t \in Tabs /\ page' = page /\ render' = Refreshed(t)
    BY <1>4 DEF Succeed, PageTypeOK, Post
  <2>2. \A u \in Tabs : render'[u] # NoRender /\ render'[u].status # Unread => render'[u] = render[u]
    <3>1. CASE render[t] = NoRender /\ page[t] = NoPage
      BY <2>1, <3>1 DEF Refreshed
    <3>2. CASE ~(render[t] = NoRender /\ page[t] = NoPage)
      <4>1. render'[t].status = Unread /\ \A u \in Tabs \ {t} : render'[u] = render[u]
        BY <2>1, <3>2 DEF Refreshed, PageTypeOK
      <4>2. QED
        BY <4>1
    <3>3. QED
      BY <3>1, <3>2
  <2>3. QED
    BY <1>1, <2>1, <2>2
<1>5. ASSUME NEW t \in Tabs, NEW c \in Claims, Visit(t, c)
      PROVE  Shown'
  BY <1>1, <1>5 DEF Visit, PageTypeOK
<1>6. ASSUME NEW t \in Tabs, Leave(t) \/ Reload(t)
      PROVE  Shown'
  BY <1>1, <1>6 DEF Leave, Reload, PageTypeOK
<1>7. CASE UNCHANGED <<page, render>>
  BY <1>1, <1>7
<1>8. QED
  <2>1. ASSUME NEW t \in Tabs, UseTab(t)
        PROVE  Shown'
    BY <1>2, <1>3, <1>5, <1>6, <1>7, <2>1 DEF UseTab, Select, TypeAmount, Edit, Confirm
  <2>2. ASSUME NEW w \in Workers, Serve(w) \/ Succeed(w) \/ Fail(w) \/ OtherClient(w)
        PROVE  Shown'
    BY <1>4, <1>7, <2>2 DEF Serve, ErrorAnswer, Answered, Fail, OtherClient, pageVars
  <2>3. CASE UNCHANGED claimPageVars
    BY <1>7, <2>3 DEF claimPageVars, pageVars
  <2>4. QED
    BY <2>1, <2>2, <2>3 DEF PageNext

(* The status at the head of a page is that of one of the rows listed under *)
(* it: the row of the claim is read before its history, and a commit in     *)
(* between only adds rows.                                                  *)
THEOREM PagesExplainThemselves == PageSpec => []PageExplainsItsStatus
<1>1. PageInit => Shown
  BY DEF PageInit, Shown, ReadIsExplained, ShownRowsExist, PageExplainsItsStatus
<1>2. IInv /\ PageTypeOK /\ Shown /\ [PageNext]_claimPageVars => Shown'
  BY ShownStep
<1>3. Shown => PageExplainsItsStatus
  BY DEF Shown
<1>4. QED
  BY <1>1, <1>2, <1>3, PageTypes, PageUsesTheThreads, Inductive, PTL DEF PageSpec

----------------------------------------------------------------------------
(* What a stale form can do.  A history that never went astray climbs the   *)
(* table of transitions, one stage with each row, so that a status of a     *)
(* stage it has passed cannot be committed into it any more.                *)

Stage == [FILED |-> 0, UNDER_REVIEW |-> 1, APPROVED |-> 2, REJECTED |-> 2, RESOLVED |-> 3]

RowsClimb ==
    \A c \in Claims : \A n \in DOMAIN history[c] :
        WentAstray(c, n) \/ Stage[history[c][n].to] = n - 1

Passed(c, s) == WentAstray(c, Len(history[c])) \/ Stage[s] < Len(history[c])

(* The page that is being rendered is of the claim that is shown, and what  *)
(* was read for it is not of an earlier stage.                              *)
Follows(c, shown, read) ==
    WentAstray(c, Len(history[c])) \/ read = shown \/ Stage[shown] < Stage[read]

PagesComeInOrder ==
    \A t \in Tabs : page[t] # NoPage /\ render[t] # NoRender =>
        /\ render[t].claim = page[t].claim
        /\ render[t].status # Unread =>
              Follows(page[t].claim, page[t].status, render[t].status)

StaleFormsAreLate ==
    \A t \in Tabs : form[t] # NoForm =>
        form[t].selected \in Offered(page[t].status) \/ Passed(page[t].claim, form[t].selected)

StaleRequestsAreLate ==
    \A w \in Workers : post[w] # NoPost /\ ~post[w].offered => Passed(post[w].claim, post[w].to)

Late == PagesComeInOrder /\ StaleFormsAreLate /\ StaleRequestsAreLate /\ StaleFormMovesNothing

(* A transition of the table, or one that a page offers, climbs one stage.  *)
LEMMA OneStageUp ==
    /\ \A s \in Status : Stage[s] \in 0..3
    /\ \A from, to \in Status : Legal(from, to) => Stage[to] = Stage[from] + 1
    /\ \A s \in Status : \A to \in Offered(s) : to \in Status /\ Stage[to] = Stage[s] + 1
<1>1. \A s \in Status : Stage[s] \in 0..3
  BY DEF Stage, Status
<1>2. \A from, to \in Status : Legal(from, to) => Stage[to] = Stage[from] + 1
  BY DEF Legal, ValidTransitions, Stage, Status
<1>3. \A s \in Status : \A i \in DOMAIN Offers[s] :
         Offers[s][i] \in Status /\ Stage[Offers[s][i]] = Stage[s] + 1
  BY DEF Offers, Stage, Status
<1>4. QED
  BY <1>1, <1>2, <1>3 DEF Offered

(* A history that went astray stays so as it grows.                         *)
LEMMA AstrayStays ==
    ASSUME TypeOK, [Next]_vars, NEW c \in Claims,
           NEW n \in Nat, NEW k \in Nat, n <= Len(history[c]), n <= k, WentAstray(c, n)
    PROVE  \E i \in 2..k : history'[c][i].from # history'[c][i - 1].to
<1>1. /\ Len(history[c]) \in Nat
      /\ \A i \in 1..Len(history[c]) : history'[c][i] = history[c][i]
  BY HistoryGrows
<1>2. PICK i \in 2..n : history[c][i].from # history[c][i - 1].to
  BY DEF WentAstray
<1>3. i \in 1..Len(history[c]) /\ i - 1 \in 1..Len(history[c]) /\ i \in 2..k
  BY <1>1, <1>2
<1>4. QED
  BY <1>1, <1>2, <1>3

(* So does what is passed, and the order of two pages.                      *)
LEMMA PassedStays ==
    ASSUME TypeOK, [Next]_vars, NEW c \in Claims
    PROVE  /\ WentAstray(c, Len(history[c])) => WentAstray(c, Len(history[c]))'
           /\ \A s \in Status : Passed(c, s) => Passed(c, s)'
           /\ \A s, u \in Status : Follows(c, s, u) => Follows(c, s, u)'
<1>1. /\ Len(history[c]) \in Nat /\ Len(history'[c]) \in Nat
      /\ Len(history[c]) <= Len(history'[c])
  BY HistoryGrows
<1>2. WentAstray(c, Len(history[c])) => WentAstray(c, Len(history[c]))'
  <2> SUFFICES ASSUME WentAstray(c, Len(history[c]))
               PROVE  \E i \in 2..Len(history'[c]) : history'[c][i].from # history'[c][i - 1].to
    BY DEF WentAstray
  <2>1. PICK n \in Nat, k \in Nat : n = Len(history[c]) /\ k = Len(history'[c])
    BY <1>1
  <2>2. n <= Len(history[c]) /\ n <= k /\ WentAstray(c, n)
    BY <1>1, <2>1
  <2>3. \E i \in 2..k : history'[c][i].from # history'[c][i - 1].to
    BY <2>2, AstrayStays
  <2>4. QED
    BY <2>1, <2>3
<1>3. \A s \in Status : Stage[s] < Len(history[c]) => Stage[s] < Len(history'[c])
  BY <1>1, OneStageUp
<1>4. QED
  BY <1>2, <1>3 DEF Passed, Follows

(* Rows climb: the row a commit adds climbs from the last one, or the       *)
(* history goes astray with it.                                             *)
LEMMA ClimbStep ==
    ASSUME IInv, IInv', RowsClimb, [Next]_vars
    PROVE  RowsClimb'
<1>0. TypeOK
  BY DEF IInv
<1>1. CASE UNCHANGED tables
  BY <1>1 DEF tables, RowsClimb, WentAstray
<1>2. ASSUME NEW w \in Workers, Commit(w)
      PROVE  RowsClimb'
  <2> SUFFICES ASSUME NEW c \in Claims, NEW n \in DOMAIN history'[c], ~WentAstray(c, n)'
               PROVE  Stage[history'[c][n].to] = n - 1
    BY DEF RowsClimb
  <2>1. /\ Len(history[c]) \in Nat /\ Len(history'[c]) \in Nat
        /\ DOMAIN history[c] = 1..Len(history[c])
        /\ DOMAIN history'[c] = 1..Len(history'[c])
        /\ \A i \in 1..Len(history[c]) : history'[c][i] = history[c][i]
    BY <1>0, HistoryGrows
  <2>2. n \in Nat /\ \A i \in 2..n : history'[c][i].from = history'[c][i - 1].to
    BY <2>1 DEF WentAstray
  <2>3. CASE n \in 1..Len(history[c])
    <3>1. \A i \in 2..n : i \in 1..Len(history[c]) /\ i - 1 \in 1..Len(history[c])
      BY <2>1, <2>3
    <3>2. ~WentAstray(c, n)
      BY <2>1, <2>2, <3>1 DEF WentAstray
    <3>3. QED
      BY <2>1, <2>3, <3>2 DEF RowsClimb
  <2>4. CASE n \notin 1..Len(history[c])
    <3>1. c = job[w].claim
      BY <1>2, <2>1, <2>4, CommitEffect, <1>0
    <3>2. DOMAIN history'[c] = 1..(Len(history[c]) + 1)
      BY <1>2, <3>1, CommitAppends
    <3>3. n = Len(history[c]) + 1 /\ Len(history[c]) >= 1
      BY <2>1, <2>4, <3>2 DEF IInv, HistoryEndsInStatus
    <3>4. /\ n - 1 \in 1..Len(history[c]) /\ n - 1 \in Nat /\ n > 1 /\ n \in 2..n
          /\ \A i \in 2..(n - 1) : i \in 1..Len(history[c]) /\ i - 1 \in 1..Len(history[c]) /\ i \in 2..n
      BY <2>1, <3>3
    <3>5. ~WentAstray(c, n - 1)
      BY <2>1, <2>2, <3>4 DEF WentAstray
    <3>6. Stage[history[c][n - 1].to] = n - 2
      BY <2>1, <3>4, <3>5 DEF RowsClimb
    <3>7. history'[c][n].from = history[c][n - 1].to
      BY <2>1, <2>2, <3>4
    <3>8. history'[c][n] \in HistoryRow /\ history[c][n - 1] \in HistoryRow
      BY <2>1, <3>4 DEF IInv, TypeOK
    <3>9. Legal(history'[c][n].from, history'[c][n].to) /\ history'[c][n].to \in Status
      BY <2>1, <3>4, <3>8 DEF IInv, EveryRowIsAnEdge, HistoryRow
    <3>10. history[c][n - 1].to \in Status
      BY <3>8 DEF HistoryRow
    <3>11. Stage[history'[c][n].to] = (n - 2) + 1
      BY <3>6, <3>7, <3>9, <3>10, OneStageUp
    <3>12. QED
      BY <3>4, <3>11
  <2>5. QED
    BY <2>3, <2>4
<1>3. QED
  BY <1>1, <1>2, CommitOrNoWrite

(* The stage of a row that is in a history which never went astray.         *)
LEMMA StageOfRow ==
    ASSUME IInv, RowsClimb, NEW c \in Claims, NEW n \in DOMAIN history[c],
           ~WentAstray(c, Len(history[c]))
    PROVE  n \in 1..Len(history[c]) /\ Stage[history[c][n].to] = n - 1
<1>1. history[c] \in Seq(HistoryRow)
  BY DEF IInv, TypeOK
<1>2. Len(history[c]) \in Nat /\ n \in 1..Len(history[c])
  BY <1>1
<1>3. ~WentAstray(c, n)
  BY <1>2 DEF WentAstray
<1>4. QED
  BY <1>2, <1>3 DEF RowsClimb

(* A page is read after the one that is shown, so it does not go back.      *)
LEMMA PagesInOrderStep ==
    ASSUME IInv, PageTypeOK, Shown, RowsClimb, PagesComeInOrder, [PageNext]_claimPageVars
    PROVE  PagesComeInOrder'
<1>0. TypeOK /\ [Next]_vars
  BY PageStepIsThreadStep DEF IInv
<1>1. ASSUME \A t \in Tabs : page'[t] # NoPage /\ render'[t] # NoRender =>
                /\ page'[t] = page[t] /\ render'[t].claim = page[t].claim
                /\ render'[t].status # Unread => render'[t] = render[t]
      PROVE  PagesComeInOrder'
  <2> SUFFICES ASSUME NEW t \in Tabs, page'[t] # NoPage, render'[t] # NoRender,
                      render'[t].status # Unread
               PROVE  Follows(page[t].claim, page[t].status, render[t].status)'
    BY <1>1 DEF PagesComeInOrder
  <2>1. page'[t] = page[t] /\ render'[t] = render[t]
    BY <1>1
  <2>2. page[t] \in Page /\ render[t] \in Render
    BY <2>1 DEF PageTypeOK
  <2>3. page[t].claim \in Claims /\ page[t].status \in Status /\ render[t].status \in Status
    BY <2>1, <2>2 DEF Page, Render
  <2>4. Follows(page[t].claim, page[t].status, render[t].status)
    BY <2>1 DEF PagesComeInOrder
  <2>5. PICK c \in Claims, s \in Status, u \in Status :
           c = page[t].claim /\ s = page[t].status /\ u = render[t].status
    BY <2>3
  <2>6. Follows(c, s, u)'
    BY <1>0, <2>4, <2>5, PassedStays
  <2>7. QED
    BY <2>1, <2>5, <2>6 DEF Follows, WentAstray
<1>2. ASSUME NEW t \in Tabs, ReadStatus(t)
      PROVE  PagesComeInOrder'
  <2>1. render[t] \in Render /\ render[t].claim \in Claims /\ render[t] # NoRender
    BY <1>2 DEF ReadStatus, PageTypeOK, Render
  <2>2. /\ render'[t].claim = render[t].claim
        /\ render'[t].status = claim[render[t].claim].status
        /\ \A u \in Tabs \ {t} : render'[u] = render[u]
        /\ page' = page /\ history' = history
    BY <1>2, <2>1 DEF ReadStatus, PageTypeOK, Render, vars
  <2>3. ASSUME page[t] # NoPage
        PROVE  /\ render[t].claim = page[t].claim
               /\ Follows(page[t].claim, page[t].status, render'[t].status)
    <3>1. render[t].claim = page[t].claim
      BY <2>1, <2>3 DEF PagesComeInOrder
    <3>2. PICK c \in Claims : c = page[t].claim
      BY <2>1, <3>1
    <3>3. /\ Len(history[c]) \in Nat /\ Len(history[c]) \in DOMAIN history[c]
          /\ DOMAIN history[c] = 1..Len(history[c])
          /\ history[c][Len(history[c])].to = render'[t].status
      BY <2>2, <3>1, <3>2 DEF IInv, TypeOK, HistoryEndsInStatus
    <3>4. page[t] \in Page
      BY <2>3 DEF PageTypeOK
    <3>5. PICK n \in 1..page[t].rows : history[c][n].to = page[t].status
      BY <2>3, <3>2 DEF Shown, PageExplainsItsStatus
    <3>6. n \in DOMAIN history[c]
      BY <2>3, <3>2, <3>3, <3>4, <3>5 DEF Shown, ShownRowsExist, Page
    <3>7. CASE ~WentAstray(c, Len(history[c]))
      <4>1. /\ Stage[page[t].status] = n - 1
            /\ Stage[render'[t].status] = Len(history[c]) - 1
        BY <3>3, <3>5, <3>6, <3>7, StageOfRow
      <4>2. n = Len(history[c]) \/ n - 1 < Len(history[c]) - 1
        BY <3>3, <3>6
      <4>3. n = Len(history[c]) => page[t].status = render'[t].status
        BY <3>3, <3>5
      <4>4. page[t].status = render'[t].status \/ Stage[page[t].status] < Stage[render'[t].status]
        BY <4>1, <4>2, <4>3
      <4>5. QED
        BY <3>1, <4>4 DEF Follows
    <3>8. QED
      BY <3>1, <3>2, <3>7 DEF Follows
  <2>4. QED
    BY <2>2, <2>3 DEF PagesComeInOrder, Follows, WentAstray
<1>3. ASSUME NEW t \in Tabs, NEW c \in Claims, Visit(t, c)
      PROVE  PagesComeInOrder'
  <2>1. /\ page[t] = NoPage /\ page' = page
        /\ \A u \in Tabs \ {t} : render'[u] = render[u]
    BY <1>3 DEF Visit, PageTypeOK
  <2>2. \A u \in Tabs : page'[u] # NoPage /\ render'[u] # NoRender =>
           page'[u] = page[u] /\ render'[u] = render[u] /\ render[u].claim = page[u].claim
    BY <2>1 DEF PagesComeInOrder
  <2>3. QED
    BY <1>1, <2>2
<1>4. ASSUME NEW t \in Tabs, Show(t) \/ Leave(t) \/ Reload(t)
      PROVE  PagesComeInOrder'
  <2>1. /\ render'[t] = NoRender
        /\ \A u \in Tabs \ {t} : page'[u] = page[u] /\ render'[u] = render[u]
    BY <1>4 DEF Show, Leave, Reload, PageTypeOK
  <2>2. QED
    BY <1>1, <2>1 DEF PagesComeInOrder
<1>5. ASSUME NEW w \in Workers, Succeed(w)
      PROVE  PagesComeInOrder'
  <2> DEFINE t == post[w].tab
  <2>1. t \in Tabs /\ page' = page /\ render' = Refreshed(t)
    BY <1>5 DEF Succeed, PageTypeOK, Post
  <2>2. CASE render[t] = NoRender /\ page[t] = NoPage
    BY <1>1, <2>1, <2>2 DEF Refreshed, PagesComeInOrder
  <2>3. CASE ~(render[t] = NoRender /\ page[t] = NoPage)
    <3>1. /\ \A u \in Tabs \ {t} : render'[u] = render[u]
          /\ render'[t].status = Unread
          /\ render'[t].claim = IF render[t] # NoRender THEN render[t].claim ELSE page[t].claim
      BY <2>1, <2>3 DEF Refreshed, PageTypeOK
    <3>2. page[t] # NoPage => render'[t].claim = page[t].claim
      BY <2>1, <3>1 DEF PagesComeInOrder
    <3> HIDE DEF t
    <3>3. QED
      BY <1>1, <2>1, <3>1, <3>2 DEF PagesComeInOrder
  <2>4. QED
    BY <2>2, <2>3
<1>6. CASE UNCHANGED <<page, render>>
  BY <1>1, <1>6 DEF PagesComeInOrder
<1>7. QED
  <2>1. ASSUME NEW t \in Tabs, UseTab(t)
        PROVE  PagesComeInOrder'
    BY <1>2, <1>3, <1>4, <1>6, <2>1 DEF UseTab, Select, TypeAmount, Edit, Confirm
  <2>2. ASSUME NEW w \in Workers, Serve(w) \/ Succeed(w) \/ Fail(w) \/ OtherClient(w)
        PROVE  PagesComeInOrder'
    BY <1>5, <1>6, <2>2 DEF Serve, ErrorAnswer, Answered, Fail, OtherClient, pageVars
  <2>3. CASE UNCHANGED claimPageVars
    BY <1>6, <2>3 DEF claimPageVars, pageVars
  <2>4. QED
    BY <2>1, <2>2, <2>3 DEF PageNext

(* A form whose page offers another status than it holds comes too late for *)
(* the one it holds.                                                        *)
LEMMA StaleFormsStep ==
    ASSUME IInv, PageTypeOK, Shown, RowsClimb, PagesComeInOrder, StaleFormsAreLate,
           [PageNext]_claimPageVars
    PROVE  StaleFormsAreLate'
<1>0. TypeOK /\ [Next]_vars
  BY PageStepIsThreadStep DEF IInv
<1>1. ASSUME NEW t \in Tabs, form[t] # NoForm, form'[t] # NoForm,
             form'[t].selected = form[t].selected, page'[t] = page[t]
      PROVE  form'[t].selected \in Offered(page'[t].status) \/ Passed(page[t].claim, form[t].selected)'
  <2>1. form[t] \in Form /\ page[t] \in Page
    BY <1>1 DEF PageTypeOK
  <2>2. PICK c \in Claims, s \in Status : c = page[t].claim /\ s = form[t].selected
    BY <2>1 DEF Form, Page
  <2>3. s \in Offered(page[t].status) \/ Passed(c, s)
    BY <1>1, <2>2 DEF StaleFormsAreLate
  <2>4. s \in Offered(page[t].status) \/ Passed(c, s)'
    BY <1>0, <2>3, PassedStays
  <2>5. QED
    BY <1>1, <2>2, <2>4 DEF Passed, WentAstray
<1>2. ASSUME \A t \in Tabs : form'[t] # NoForm =>
                /\ form[t] # NoForm /\ form'[t].selected = form[t].selected
                /\ page'[t] = page[t]
      PROVE  StaleFormsAreLate'
  BY <1>1, <1>2 DEF StaleFormsAreLate
<1>3. ASSUME NEW t \in Tabs, Show(t)
      PROVE  StaleFormsAreLate'
  <2>1. /\ render[t] # NoRender /\ render[t].status # Unread
        /\ render[t] \in Render /\ render[t].claim \in Claims
    BY <1>3 DEF Show, PageTypeOK, Render
  <2>2. render[t].status \in Status
    BY <2>1 DEF Render
  <2>3. /\ page'[t] = Rendered(t) /\ form'[t] = FormOn(t, Rendered(t))
        /\ \A u \in Tabs \ {t} : page'[u] = page[u] /\ form'[u] = form[u]
        /\ history' = history
    BY <1>3 DEF Show, PageTypeOK, vars
  <2>4. page'[t].claim = render[t].claim /\ page'[t].status = render[t].status
    BY <2>3 DEF Rendered
  <2>5. CASE form'[t] # NoForm /\ form[t] = NoForm
    <3>1. Offers[render[t].status] # <<>> /\ form'[t].selected = Offers[render[t].status][1]
      BY <2>3, <2>5 DEF FormOn, NewForm, Rendered
    <3>2. 1 \in DOMAIN Offers[render[t].status]
      BY <2>2, <3>1 DEF Offers, Status
    <3>3. form'[t].selected \in Offered(page'[t].status)
      BY <2>4, <3>1, <3>2 DEF Offered
    <3>4. QED
      BY <1>1, <2>3, <3>3 DEF StaleFormsAreLate
  <2>6. CASE form'[t] # NoForm /\ form[t] # NoForm
    <3>1. form'[t] = form[t]
      BY <2>3, <2>6 DEF FormOn
    <3>2. form[t] \in Form /\ page[t] # NoPage /\ page[t] \in Page
      BY <2>6 DEF PageTypeOK
    <3>3. form[t].selected \in Status /\ page[t].status \in Status
      BY <3>2 DEF Form, Page
    <3>4. /\ page[t].claim = render[t].claim
          /\ Follows(page[t].claim, page[t].status, render[t].status)
      BY <2>1, <3>2 DEF PagesComeInOrder
    <3>5. form[t].selected \in Offered(page[t].status) \/ Passed(page[t].claim, form[t].selected)
      BY <2>6 DEF StaleFormsAreLate
    <3>6. PICK c \in Claims : c = page[t].claim /\ c = render[t].claim
      BY <2>1, <3>4
    <3>7. ASSUME form[t].selected \in Offered(page[t].status),
                 page[t].status # render[t].status, ~WentAstray(c, Len(history[c]))
          PROVE  Stage[form[t].selected] < Len(history[c])
      <4>1. PICK n \in DOMAIN history[c] : history[c][n].to = render[t].status
        BY <2>1, <3>6 DEF Shown, ReadIsExplained
      <4>2. n \in 1..Len(history[c]) /\ Stage[render[t].status] = n - 1
        BY <3>7, <4>1, StageOfRow
      <4>3. Stage[page[t].status] < Stage[render[t].status]
        BY <3>4, <3>6, <3>7 DEF Follows
      <4>4. Stage[form[t].selected] = Stage[page[t].status] + 1 /\ Stage[page[t].status] \in 0..3
        BY <3>3, <3>7, OneStageUp
      <4>5. Len(history[c]) \in Nat
        BY DEF IInv, TypeOK
      <4>6. QED
        BY <4>2, <4>3, <4>4, <4>5
    <3>8. form[t].selected \in Offered(render[t].status) \/ Passed(c, form[t].selected)
      BY <3>5, <3>6, <3>7 DEF Passed
    <3>9. form'[t].selected \in Offered(page'[t].status) \/ Passed(page[t].claim, form[t].selected)'
      BY <2>3, <2>4, <3>1, <3>6, <3>8 DEF Passed, WentAstray
    <3>10. QED
      BY <1>1, <2>3, <3>9 DEF StaleFormsAreLate
  <2>7. CASE form'[t] = NoForm
    BY <1>2, <2>3, <2>7
  <2>8. QED
    BY <2>5, <2>6, <2>7
<1>4. ASSUME NEW t \in Tabs, NEW s \in Status, Select(t, s)
      PROVE  StaleFormsAreLate'
  <2>1. form[t] # NoForm /\ form[t] \in Form
    BY <1>4 DEF Select, PageTypeOK
  <2>2. /\ form'[t].selected = s /\ s \in Offered(page[t].status) /\ page' = page
        /\ \A u \in Tabs \ {t} : form'[u] = form[u]
    BY <1>4, <2>1 DEF Select, Edit, PageTypeOK, Form
  <2>3. QED
    BY <1>1, <2>2 DEF StaleFormsAreLate
<1>5. ASSUME NEW t \in Tabs, NEW a, TypeAmount(t, a)
      PROVE  StaleFormsAreLate'
  <2>1. form[t] # NoForm /\ form[t] \in Form
    BY <1>5 DEF TypeAmount, PageTypeOK
  <2>2. /\ form'[t].selected = form[t].selected /\ page' = page
        /\ \A u \in Tabs \ {t} : form'[u] = form[u]
    BY <1>5, <2>1 DEF TypeAmount, Edit, PageTypeOK, Form
  <2>3. QED
    BY <1>2, <2>1, <2>2
<1>6. ASSUME NEW t \in Tabs, NEW w \in Workers, Confirm(t, w)
      PROVE  StaleFormsAreLate'
  <2>1. form[t] # NoForm /\ form[t] \in Form
    BY <1>6 DEF Confirm, Pressable, PageTypeOK
  <2>2. /\ form'[t].selected = form[t].selected /\ page' = page
        /\ \A u \in Tabs \ {t} : form'[u] = form[u]
    BY <1>6, <2>1 DEF Confirm, PageTypeOK, Form
  <2>3. QED
    BY <1>2, <2>1, <2>2
<1>7. ASSUME NEW w \in Workers, Succeed(w) \/ Fail(w)
      PROVE  StaleFormsAreLate'
  <2> DEFINE t == post[w].tab
  <2>1. t \in Tabs /\ page' = page /\ post[w] # NoPost
    BY <1>7 DEF Succeed, Fail, PageTypeOK, Post
  <2>2. CASE post[w].mounted
    <3>1. form[t] # NoForm /\ form[t] \in Form
      BY <2>1, <2>2 DEF PageTypeOK
    <3>2. /\ form'[t].selected = form[t].selected
          /\ \A u \in Tabs \ {t} : form'[u] = form[u]
      BY <1>7, <2>1, <2>2, <3>1 DEF Succeed, Fail, FormAfter, PageTypeOK, Form
    <3> HIDE DEF t
    <3>3. QED
      BY <1>2, <2>1, <3>1, <3>2
  <2>3. CASE ~post[w].mounted
    BY <1>2, <1>7, <2>1, <2>3 DEF Succeed, Fail, FormAfter
  <2>4. QED
    BY <2>2, <2>3
<1>8. ASSUME NEW t \in Tabs, Leave(t) \/ Reload(t)
      PROVE  StaleFormsAreLate'
  <2>1. /\ form'[t] = NoForm
        /\ \A u \in Tabs \ {t} : page'[u] = page[u] /\ form'[u] = form[u]
    BY <1>8 DEF Leave, Reload, PageTypeOK
  <2>2. QED
    BY <1>2, <2>1
<1>9. CASE UNCHANGED <<page, form>>
  BY <1>2, <1>9
<1>10. QED
  <2>1. ASSUME NEW t \in Tabs, UseTab(t)
        PROVE  StaleFormsAreLate'
    BY <1>3, <1>4, <1>5, <1>6, <1>8, <1>9, <2>1 DEF UseTab, Visit, ReadStatus
  <2>2. ASSUME NEW w \in Workers, Serve(w) \/ Succeed(w) \/ Fail(w) \/ OtherClient(w)
        PROVE  StaleFormsAreLate'
    BY <1>7, <1>9, <2>2 DEF Serve, ErrorAnswer, Answered, OtherClient, pageVars
  <2>3. CASE UNCHANGED claimPageVars
    BY <1>9, <2>3 DEF claimPageVars, pageVars
  <2>4. QED
    BY <2>1, <2>2, <2>3 DEF PageNext

(* What an answer, or the end of a form, leaves of its request: what it     *)
(* asked for, and whether that was offered.                                 *)
SameClick(w) ==
    /\ post[w] # NoPost
    /\ post'[w].claim = post[w].claim /\ post'[w].to = post[w].to
    /\ post'[w].offered = post[w].offered

LEMMA ClicksStay ==
    ASSUME PageTypeOK, NEW w \in Workers, post'[w] # NoPost
    PROVE  /\ \A t \in Tabs : post' = Orphaned(t) => SameClick(w)
           /\ \A v \in Workers, a \in {"ok", "error"}, row \in Nat :
                 Answered(v, a, row) => SameClick(w)
<1>1. ASSUME NEW t \in Tabs, post' = Orphaned(t)
      PROVE  SameClick(w)
  <2>1. post[w] # NoPost
    BY <1>1 DEF Orphaned
  <2>2. post[w] \in Post
    BY <2>1 DEF PageTypeOK
  <2>3. post'[w] = [post[w] EXCEPT !.mounted = FALSE] \/ post'[w] = post[w]
    BY <1>1 DEF Orphaned
  <2>4. QED
    BY <2>1, <2>2, <2>3 DEF SameClick, Post
<1>2. ASSUME NEW v \in Workers, NEW a \in {"ok", "error"}, NEW row \in Nat, Answered(v, a, row)
      PROVE  SameClick(w)
  <2>1. SameRequest(w)
    BY <1>2, AnsweredKeeps
  <2>2. post[w] # NoPost /\ post[w] \in Post
    BY <2>1 DEF SameRequest, PageTypeOK
  <2>3. post'[w] = [post[w] EXCEPT !.answer = a, !.row = row] \/ post'[w] = post[w]
    BY <1>2 DEF Answered, PageTypeOK
  <2>4. QED
    BY <2>2, <2>3 DEF SameClick, Post
<1>3. QED
  BY <1>1, <1>2

(* A request for what its page did not offer stays too late.                *)
LEMMA StaleRequestsStep ==
    ASSUME IInv, PageTypeOK, StaleFormsAreLate, StaleRequestsAreLate, [PageNext]_claimPageVars
    PROVE  StaleRequestsAreLate'
<1>0. TypeOK /\ [Next]_vars
  BY PageStepIsThreadStep DEF IInv
<1>1. ASSUME NEW w \in Workers, SameClick(w), ~post'[w].offered
      PROVE  Passed(post[w].claim, post[w].to)'
  <2>1. post[w] # NoPost /\ post[w] \in Post /\ ~post[w].offered
    BY <1>1 DEF PageTypeOK, SameClick
  <2>2. PICK c \in Claims, s \in Status : c = post[w].claim /\ s = post[w].to
    BY <2>1 DEF Post
  <2>3. Passed(c, s)
    BY <2>1, <2>2 DEF StaleRequestsAreLate
  <2>4. Passed(c, s)'
    BY <1>0, <2>3, PassedStays
  <2>5. QED
    BY <1>1, <2>2, <2>4 DEF Passed, WentAstray, SameClick
<1>2. ASSUME \A w \in Workers : post'[w] # NoPost => SameClick(w)
      PROVE  StaleRequestsAreLate'
  BY <1>1, <1>2 DEF StaleRequestsAreLate
<1>3. ASSUME NEW t \in Tabs, post' = post \/ post' = Orphaned(t)
      PROVE  StaleRequestsAreLate'
  BY <1>2, <1>3, ClicksStay DEF SameClick
<1>4. ASSUME NEW t \in Tabs, Reload(t)
      PROVE  StaleRequestsAreLate'
  BY <1>2, <1>4 DEF Reload, SameClick
<1>5. ASSUME NEW w \in Workers, Succeed(w) \/ Fail(w)
      PROVE  StaleRequestsAreLate'
  BY <1>2, <1>5 DEF Succeed, Fail, PageTypeOK, SameClick
<1>6. ASSUME NEW t \in Tabs, NEW w \in Workers, Confirm(t, w)
      PROVE  StaleRequestsAreLate'
  <2>1. form[t] # NoForm /\ form[t] \in Form /\ page[t] \in Page
    BY <1>6 DEF Confirm, Pressable, PageTypeOK
  <2>2. form[t].selected \in Status /\ page[t].claim \in Claims
    BY <2>1 DEF Form, Page
  <2>3. /\ post'[w].claim = page[t].claim /\ post'[w].to = form[t].selected
        /\ post'[w].offered <=> form[t].selected \in Offered(page[t].status)
        /\ \A v \in Workers \ {w} : post'[v] = post[v]
    BY <1>6 DEF Confirm, PageTypeOK
  <2>4. form[t].selected \in Offered(page[t].status) \/ Passed(page[t].claim, form[t].selected)
    BY <2>1 DEF StaleFormsAreLate
  <2>5. history' = history
    BY <1>6 DEF Confirm, Load, tables
  <2>6. ~post'[w].offered => Passed(post[w].claim, post[w].to)'
    BY <2>3, <2>4, <2>5 DEF Passed, WentAstray
  <2>7. \A v \in Workers \ {w} : post'[v] # NoPost => SameClick(v)
    BY <2>3 DEF SameClick
  <2>8. QED
    BY <1>1, <2>6, <2>7 DEF StaleRequestsAreLate
<1>7. ASSUME NEW w \in Workers, Serve(w)
      PROVE  StaleRequestsAreLate'
  <2>1. CASE (Refuse(w) \/ Abandon(w)) /\ Answered(w, "error", 0)
    BY <1>2, <2>1, ClicksStay
  <2>2. CASE Lock(w) /\ UNCHANGED pageVars
    BY <1>2, <2>2 DEF pageVars, SameClick
  <2>3. CASE Commit(w) /\ Answered(w, "ok", Len(history[job[w].claim]) + 1)
    <3>1. Len(history[job[w].claim]) + 1 \in Nat
      BY <1>0, <2>3, CommitEffect DEF TypeOK
    <3>2. QED
      BY <1>2, <2>3, <3>1, ClicksStay
  <2>4. QED
    BY <1>7, <2>1, <2>2, <2>3 DEF Serve, ErrorAnswer
<1>8. ASSUME post' = post
      PROVE  StaleRequestsAreLate'
  BY <1>2, <1>8 DEF SameClick
<1>9. QED
  <2>1. ASSUME NEW t \in Tabs, UseTab(t)
        PROVE  StaleRequestsAreLate'
    BY <1>3, <1>4, <1>6, <1>8, <2>1
       DEF UseTab, Visit, ReadStatus, Show, Leave, Select, TypeAmount, Edit
  <2>2. ASSUME NEW w \in Workers, Serve(w) \/ Succeed(w) \/ Fail(w) \/ OtherClient(w)
        PROVE  StaleRequestsAreLate'
    BY <1>5, <1>7, <1>8, <2>2 DEF OtherClient, pageVars
  <2>3. CASE UNCHANGED claimPageVars
    BY <1>8, <2>3 DEF claimPageVars, pageVars
  <2>4. QED
    BY <2>1, <2>2, <2>3 DEF PageNext

(* The commit of such a request makes the history go astray, if it had not. *)
LEMMA StaleCommit ==
    ASSUME IInv, PageTypeOK, Told, RowsClimb', StaleRequestsAreLate, NEW w \in Workers,
           Commit(w), [Next]_vars, post[w] # NoPost, ~post[w].offered
    PROVE  \E i \in 2..(Len(history[job[w].claim]) + 1) :
               history'[post[w].claim][i].from # history'[post[w].claim][i - 1].to
<1>1. post[w].claim = job[w].claim /\ post[w].to = job[w].to
  BY DEF Commit, Told, ServedAsAsked
<1>2. PICK c \in Claims : c = job[w].claim
  BY CommitEffect DEF IInv
<1>3. /\ Len(history[c]) \in Nat
      /\ DOMAIN history'[c] = 1..(Len(history[c]) + 1)
      /\ history'[c][Len(history[c]) + 1].to = job[w].to
  BY <1>2, CommitAppends
<1>4. PICK m \in Nat : m = Len(history[c]) + 1
  BY <1>3
<1>5. Passed(c, job[w].to) /\ job[w].to \in Status
  BY <1>1, <1>2, CommitEffect DEF IInv, StaleRequestsAreLate, Job
<1>6. CASE WentAstray(c, Len(history[c]))
  <2>1. PICK n \in Nat : n = Len(history[c])
    BY <1>3
  <2>2. n <= Len(history[c]) /\ n <= m /\ WentAstray(c, n)
    BY <1>3, <1>4, <1>6, <2>1
  <2>3. \E i \in 2..m : history'[c][i].from # history'[c][i - 1].to
    BY <2>2, AstrayStays DEF IInv
  <2>4. QED
    BY <1>1, <1>2, <1>4, <2>3
<1>7. CASE Stage[job[w].to] < Len(history[c])
  <2>1. m \in DOMAIN history'[c] /\ history'[c][m].to = job[w].to /\ m - 1 = Len(history[c])
    BY <1>3, <1>4
  <2>2. Stage[history'[c][m].to] # m - 1
    BY <1>5, <1>7, <2>1, OneStageUp
  <2>3. WentAstray(c, m)'
    BY <2>1, <2>2 DEF RowsClimb
  <2>4. QED
    BY <1>1, <1>2, <1>4, <2>3 DEF WentAstray
<1>8. QED
  BY <1>5, <1>6, <1>7 DEF Passed

(* A step answers no such request with a row of a straight history.         *)
LEMMA StaleFormsMoveStep ==
    ASSUME IInv, PageTypeOK, Told, RowsClimb', StaleRequestsAreLate, StaleFormMovesNothing,
           [PageNext]_claimPageVars
    PROVE  StaleFormMovesNothing'
<1>0. TypeOK /\ [Next]_vars
  BY PageStepIsThreadStep DEF IInv
<1> DEFINE Kept(w) == /\ SameClick(w)
                      /\ post'[w].answer = post[w].answer /\ post'[w].row = post[w].row
<1>1. ASSUME NEW w \in Workers, Kept(w), post'[w].answer = "ok", ~post'[w].offered
      PROVE  \E i \in 2..post'[w].row :
                history'[post'[w].claim][i].from # history'[post'[w].claim][i - 1].to
  <2>1. post[w] # NoPost /\ post[w] \in Post /\ ~post[w].offered /\ post[w].answer = "ok"
    BY <1>1 DEF PageTypeOK, SameClick
  <2>2. PICK c \in Claims, n \in Nat : c = post[w].claim /\ n = post[w].row
    BY <2>1 DEF Post
  <2>3. WentAstray(c, n)
    BY <2>1, <2>2 DEF StaleFormMovesNothing
  <2>4. n \in DOMAIN history[c]
    BY <2>1, <2>2 DEF Told, ToastsAreTrue
  <2>5. n <= Len(history[c]) /\ n <= n
    BY <1>0, <2>4 DEF TypeOK
  <2>6. \E i \in 2..n : history'[c][i].from # history'[c][i - 1].to
    BY <1>0, <2>3, <2>5, AstrayStays
  <2>7. QED
    BY <1>1, <2>2, <2>6 DEF SameClick
<1> HIDE DEF Kept
<1>2. ASSUME \A w \in Workers :
                post'[w] # NoPost /\ post'[w].answer = "ok" => Kept(w)
      PROVE  StaleFormMovesNothing'
  BY <1>1, <1>2 DEF StaleFormMovesNothing, WentAstray
<1>3. ASSUME NEW w \in Workers, post[w] # NoPost, post'[w] = post[w]
      PROVE  Kept(w)
  BY <1>3 DEF Kept, SameClick
<1>4. ASSUME NEW t \in Tabs, post' = Orphaned(t)
      PROVE  StaleFormMovesNothing'
  <2>1. ASSUME NEW w \in Workers, post'[w] # NoPost
        PROVE  Kept(w)
    <3>1. SameClick(w)
      BY <1>4, <2>1, ClicksStay
    <3>2. post'[w].answer = post[w].answer /\ post'[w].row = post[w].row
      BY <1>4, <3>1, OrphanedKeeps DEF SameClick
    <3>3. QED
      BY <3>1, <3>2 DEF Kept
  <2>2. QED
    BY <1>2, <2>1
<1>5. CASE post' = post
  BY <1>2, <1>3, <1>5
<1>6. ASSUME NEW t \in Tabs, Reload(t)
      PROVE  StaleFormMovesNothing'
  BY <1>2, <1>3, <1>6 DEF Reload
<1>7. ASSUME NEW w \in Workers, Succeed(w) \/ Fail(w)
      PROVE  StaleFormMovesNothing'
  BY <1>2, <1>3, <1>7 DEF Succeed, Fail, PageTypeOK
<1>8. ASSUME NEW t \in Tabs, NEW w \in Workers, Confirm(t, w)
      PROVE  StaleFormMovesNothing'
  <2>1. post'[w].answer = "none" /\ \A v \in Workers \ {w} : post'[v] = post[v]
    BY <1>8 DEF Confirm, PageTypeOK
  <2>2. QED
    BY <1>2, <1>3, <2>1
<1>9. ASSUME NEW w \in Workers, Answered(w, "error", 0)
      PROVE  StaleFormMovesNothing'
  <2>1. /\ \A v \in Workers : SameRequest(v)
        /\ \A v \in Workers \ {w} : post'[v] = post[v]
        /\ post[w] # NoPost => post'[w].answer = "error"
    BY <1>9, AnsweredKeeps
  <2>2. ASSUME NEW v \in Workers, post'[v] # NoPost, post'[v].answer = "ok"
        PROVE  post[v] # NoPost /\ v # w
    BY <2>1, <2>2 DEF SameRequest
  <2>3. QED
    BY <1>2, <1>3, <2>1, <2>2
<1>10. ASSUME NEW w \in Workers, Commit(w), Answered(w, "ok", Len(history[job[w].claim]) + 1)
       PROVE  StaleFormMovesNothing'
  <2>1. PICK m \in Nat : m = Len(history[job[w].claim]) + 1
    BY <1>0, <1>10, CommitEffect DEF TypeOK
  <2>2. /\ \A v \in Workers : SameRequest(v)
        /\ \A v \in Workers \ {w} : post'[v] = post[v]
        /\ post[w] # NoPost => post'[w].row = m
    BY <1>10, <2>1, AnsweredKeeps
  <2>3. \A v \in Workers : post'[v] # NoPost => SameClick(v)
    BY <1>10, <2>1, ClicksStay
  <2> SUFFICES ASSUME NEW v \in Workers, post'[v] # NoPost, post'[v].answer = "ok", ~post'[v].offered
               PROVE  \E i \in 2..post'[v].row :
                         history'[post'[v].claim][i].from # history'[post'[v].claim][i - 1].to
    BY DEF StaleFormMovesNothing, WentAstray
  <2>4. CASE v # w
    <3>1. post[v] # NoPost /\ post'[v] = post[v]
      BY <2>2, <2>4 DEF SameRequest
    <3>2. QED
      BY <1>1, <1>3, <3>1
  <2>5. CASE v = w
    <3>1. /\ post[w] # NoPost /\ ~post[w].offered
          /\ post'[w].claim = post[w].claim /\ post'[w].row = m
      BY <2>2, <2>3, <2>5 DEF SameClick
    <3>2. \E i \in 2..m : history'[post[w].claim][i].from # history'[post[w].claim][i - 1].to
      BY <1>0, <1>10, <2>1, <3>1, StaleCommit
    <3>3. QED
      BY <2>5, <3>1, <3>2
  <2>6. QED
    BY <2>4, <2>5
<1>11. QED
  <2>1. ASSUME NEW t \in Tabs, UseTab(t)
        PROVE  StaleFormMovesNothing'
    BY <1>4, <1>5, <1>6, <1>8, <2>1
       DEF UseTab, Visit, ReadStatus, Show, Leave, Select, TypeAmount, Edit
  <2>2. ASSUME NEW w \in Workers, Serve(w) \/ Succeed(w) \/ Fail(w) \/ OtherClient(w)
        PROVE  StaleFormMovesNothing'
    BY <1>5, <1>7, <1>9, <1>10, <2>2 DEF Serve, ErrorAnswer, OtherClient, pageVars
  <2>3. CASE UNCHANGED claimPageVars
    BY <1>5, <2>3 DEF claimPageVars, pageVars
  <2>4. QED
    BY <2>1, <2>2, <2>3 DEF PageNext

(* A form that keeps a status its page does not offer any more moves no     *)
(* claim (the table of transitions refuses what it asks for), unless        *)
(* overlapping requests have taken the claim back before.                   *)
THEOREM StaleFormsAreHarmless == PageSpec => []StaleFormMovesNothing
<1>1. Init /\ PageInit => RowsClimb /\ Late
  <2> SUFFICES ASSUME Init, PageInit
               PROVE  RowsClimb /\ Late
    OBVIOUS
  <2> DEFINE first == [from |-> "", to |-> "FILED"]
  <2>1. ASSUME NEW c \in Claims
        PROVE  DOMAIN history[c] = 1..1 /\ history[c][1] = first
    BY SingletonParts DEF Init
  <2>2. Stage[first.to] = 1 - 1
    BY DEF Stage
  <2> HIDE DEF first
  <2>3. RowsClimb
    BY <2>1, <2>2 DEF RowsClimb
  <2>4. Late
    BY DEF PageInit, Late, PagesComeInOrder, StaleFormsAreLate, StaleRequestsAreLate,
           StaleFormMovesNothing
  <2>5. QED
    BY <2>3, <2>4
<1>2. /\ IInv /\ IInv' /\ PageTypeOK /\ Told /\ Shown
      /\ RowsClimb /\ Late /\ [PageNext]_claimPageVars
      => (RowsClimb /\ Late)'
  <2> SUFFICES ASSUME IInv, IInv', PageTypeOK, Told, Shown, RowsClimb, Late,
                      [PageNext]_claimPageVars
               PROVE  RowsClimb' /\ Late'
    OBVIOUS
  <2>1. [Next]_vars
    BY PageStepIsThreadStep
  <2>2. RowsClimb'
    BY <2>1, ClimbStep
  <2>3. PagesComeInOrder' /\ StaleFormsAreLate' /\ StaleRequestsAreLate'
    BY PagesInOrderStep, StaleFormsStep, StaleRequestsStep DEF Late
  <2>4. StaleFormMovesNothing'
    BY <2>2, StaleFormsMoveStep DEF Late
  <2>5. QED
    BY <2>2, <2>3, <2>4 DEF Late
<1>3. PageInit => Told /\ Shown
  BY DEF PageInit, Told, ServedAsAsked, ToastsAreTrue, Shown, ReadIsExplained, ShownRowsExist,
         PageExplainsItsStatus
<1>4. IInv /\ PageTypeOK /\ Told /\ Shown /\ [PageNext]_claimPageVars => (Told /\ Shown)'
  BY ToldStep, ShownStep
<1>5. Late => StaleFormMovesNothing
  BY DEF Late
<1>6. QED
  BY <1>1, <1>2, <1>3, <1>4, <1>5, PageTypes, PageUsesTheThreads, Inductive, PTL DEF PageSpec
=============================================================================
