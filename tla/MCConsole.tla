----------------------------- MODULE MCConsole -----------------------------
(***************************************************************************)
(* The dashboard for TLC: the page of a claim over the threads of          *)
(* claims-service, the session of a browser, the lists, and the overview.  *)
(* The four share no variable, so each is explored while the others rest   *)
(* where they start: the states are the sum of theirs and not the product. *)
(***************************************************************************)
EXTENDS ClaimPage, Session, Listings, Overview, TLC

VARIABLE part   \* the one that is explored

Is(p) == part \in {"any", p} /\ part' = p

(* While the others are explored the overview has no rows.                  *)
NoRows == service = "claims" /\ standing = [i \in Items |-> Absent]

ConsoleInit ==
    /\ Init /\ PageInit /\ SessionInit /\ ListInit /\ OverviewInit
    /\ part = "overview" \/ (part = "any" /\ NoRows)

(* One claim, one adjuster at one tab, any other clients.                   *)
PageMoves == Is("page") /\ PageNext /\ UNCHANGED <<sessionVars, listVars, overviewVars>>

SessionMoves == Is("session") /\ SessionNext /\ UNCHANGED <<claimPageVars, listVars, overviewVars>>

(* Readers change nothing that another reads: one at a time is enough.      *)
OneReader == \A r, s \in Readers :
    r = s \/ (list'[r] = NoList /\ query'[r] = NoQuery) \/ (list'[s] = NoList /\ query'[s] = NoQuery)

ListMoves ==
    Is("list") /\ ListNext /\ OneReader /\ UNCHANGED <<claimPageVars, sessionVars, overviewVars>>

OverviewMoves ==
    part = "overview" /\ OverviewNext /\ UNCHANGED <<claimPageVars, sessionVars, listVars, part>>

ConsoleNext == PageMoves \/ SessionMoves \/ ListMoves \/ OverviewMoves

consoleVars == <<claimPageVars, sessionVars, listVars, overviewVars, part>>

ConsoleSpec == ConsoleInit /\ [][ConsoleNext]_consoleVars

(* The variables of the four keep their types.                              *)
ConsoleTypeOK == TypeOK /\ PageTypeOK /\ SessionTypeOK /\ ListTypeOK /\ OverviewTypeOK

(* Threads run the same code and are told apart by nothing.                *)
MCSymmetry == Permutations(Workers)
=============================================================================
