------------------------------ MODULE JoinSearch ------------------------------
(***************************************************************************)
(* A device looks for the member that shows a code.                        *)
(*                                                                         *)
(* api/join.py: POST /pair/join starts a thread, one at a time, that tries *)
(* the instances on the network in turn, proves the code, waits for the    *)
(* approval of a human and applies the payload; GET /pair/join-status      *)
(* tells where it is.  Pairing is the member's side, Mesh what applying    *)
(* does to the memory.                                                     *)
(*                                                                         *)
(* The n-th search makes its own requests.  Requests and answers may be    *)
(* lost, time may run out on either side at any moment, and the process    *)
(* may die: the state of the search is in its memory only.  Left out: the  *)
(* key exchange itself -- the proof succeeds for the right code.           *)
(***************************************************************************)
EXTENDS Naturals, Sequences, FiniteSets

CONSTANTS
  Member,     \* instances that may answer
  Right,      \* those that show the code that was typed
  Thread,     \* bound: threads
  MaxSearch,  \* bound: searches
  MaxDeath    \* bound: deaths of this process

SearchAssumption == Right \subseteq Member /\ MaxSearch \in Nat /\ MaxDeath \in Nat

VARIABLES
  status,    \* _state
  thread,    \* of each thread: where it is, its search, the candidates left
  searches,  \* searches started
  request,   \* request[n][m]: the request of search n, as member m has it
  said,      \* history: the requests that the user of a member approved or denied
  applied,   \* history: the searches whose payload was applied
  called,    \* the requests whose return leg reached the member
  unheard,   \* history: requests whose proof was accepted and the answer lost
  dead

searchVars == <<status, thread, searches, request, said, applied, called, unheard, dead>>

Search == 1..MaxSearch
Busy == {"searching", "waiting_approval", "applying"}
Off == [at |-> "off"]
Lists == {l \in {<<>>} \cup {<<m>> : m \in Member} \cup {<<m, o>> : m, o \in Member} :
  Len(l) = 2 => l[1] # l[2]}

Init ==
  /\ status = "idle" /\ thread = [t \in Thread |-> Off] /\ searches = 0
  /\ request = [n \in Search |-> [m \in Member |-> "none"]]
  /\ said = {} /\ applied = {} /\ called = {} /\ unheard = {} /\ dead = 0

\* The member that thread t is talking to, and its request there.
Of(t) == Head(thread[t].left)
Asked(t) == request[thread[t].n][Of(t)]
Becomes(t, value) == request' = [request EXCEPT ![thread[t].n][Of(t)] = value]
Goes(t, at) == thread' = [thread EXCEPT ![t].at = at]
Ends(t, how) == status' = how /\ thread' = [thread EXCEPT ![t] = Off]

(***************************************************************************)
(* The joiner.                                                             *)
(***************************************************************************)
\* Mutant: the test and the assignment are not under one lock, so that a second request
\* finds no search in progress.
StartAnyway(t) ==
  /\ thread[t] = Off /\ searches < MaxSearch
  /\ searches' = searches + 1 /\ status' = "searching"
  /\ \E left \in Lists : thread' = [thread EXCEPT ![t] = [at |-> "ask", n |-> searches + 1, left |-> left]]
  /\ UNCHANGED <<request, said, applied, called, unheard, dead>>

\* The candidates: an address typed by hand or the known peers, perhaps none.
Start(t) ==
  /\ thread[t] = Off /\ searches < MaxSearch /\ status \notin Busy
  /\ searches' = searches + 1 /\ status' = "searching"
  /\ \E left \in Lists : thread' = [thread EXCEPT ![t] = [at |-> "ask", n |-> searches + 1, left |-> left]]
  /\ UNCHANGED <<request, said, applied, called, unheard, dead>>

NotFound(t) ==
  /\ thread[t].at = "ask" /\ thread[t].left = <<>>
  /\ Ends(t, "not_found")
  /\ UNCHANGED <<searches, request, said, applied, called, unheard, dead>>

Skips(t) == thread' = [thread EXCEPT ![t].at = "ask", ![t].left = Tail(@)] /\ UNCHANGED status

\* request-code: the member shows a code, or not; the answer may be lost.
Ask(t) ==
  /\ thread[t].at = "ask" /\ thread[t].left # <<>>
  /\ \/ Becomes(t, "awaiting") /\ (Skips(t) \/ (Goes(t, "confirm") /\ UNCHANGED status))
     \/ Skips(t) /\ UNCHANGED request
  /\ UNCHANGED <<searches, said, applied, called, unheard, dead>>

\* confirm-code: only the right code is accepted, while the request lives.
Confirm(t) ==
  /\ thread[t].at = "confirm"
  /\ \/ /\ Asked(t) = "awaiting" /\ Of(t) \in Right
        /\ Becomes(t, "pending")
        /\ \/ status' = "waiting_approval" /\ Goes(t, "poll") /\ UNCHANGED unheard
           \/ Skips(t) /\ unheard' = unheard \cup {<<thread[t].n, Of(t)>>}
     \/ /\ Asked(t) # "awaiting" \/ Of(t) \notin Right
        /\ Skips(t) /\ UNCHANGED <<request, unheard>>
     \/ Skips(t) /\ UNCHANGED <<request, unheard>>
  /\ UNCHANGED <<searches, said, applied, called, dead>>

\* One poll: nothing yet, an answer that is lost, the payload, a refusal, the end of the
\* request, which is also what a member says once it has given the payload.
Poll(t) ==
  /\ thread[t].at = "poll"
  /\ \/ /\ Asked(t) = "approved" /\ Becomes(t, "given")
        /\ \/ status' = "applying" /\ Goes(t, "apply")
           \/ UNCHANGED <<status, thread>>
     \/ Asked(t) = "denied" /\ Ends(t, "denied") /\ UNCHANGED request
     \/ Asked(t) \in {"expired", "given"} /\ Ends(t, "expired") /\ UNCHANGED request
  /\ UNCHANGED <<searches, said, applied, called, unheard, dead>>

TimesOut(t) ==
  /\ thread[t].at = "poll" /\ Ends(t, "expired")
  /\ UNCHANGED <<searches, request, said, applied, called, unheard, dead>>

\* _apply, whose failures are in Mesh; then the return leg, best effort.
Apply(t) ==
  /\ thread[t].at = "apply"
  /\ applied' = applied \cup {thread[t].n}
  /\ Goes(t, "call")
  /\ UNCHANGED <<status, searches, request, said, called, unheard, dead>>

ApplyFails(t) ==
  /\ thread[t].at = "apply" /\ Ends(t, "failed")
  /\ UNCHANGED <<searches, request, said, applied, called, unheard, dead>>

CallBack(t) ==
  /\ thread[t].at = "call"
  /\ called' \in {called, called \cup {<<thread[t].n, Of(t)>>}}
  /\ Ends(t, "done")
  /\ UNCHANGED <<searches, request, said, applied, unheard, dead>>

Dies ==
  /\ dead < MaxDeath /\ dead' = dead + 1
  /\ status' = "idle" /\ thread' = [t \in Thread |-> Off]
  /\ UNCHANGED <<searches, request, said, applied, called, unheard>>

(***************************************************************************)
(* The members.                                                            *)
(***************************************************************************)
Decide(n, m, answer) ==
  /\ request[n][m] = "pending"
  /\ request' = [request EXCEPT ![n][m] = answer]
  /\ said' = said \cup {<<n, m, answer>>}
  /\ UNCHANGED <<status, thread, searches, applied, called, unheard, dead>>

Expire(n, m) ==
  /\ request[n][m] \in {"awaiting", "pending", "approved", "denied"}
  /\ request' = [request EXCEPT ![n][m] = "expired"]
  /\ UNCHANGED <<status, thread, searches, said, applied, called, unheard, dead>>

Next ==
  \/ \E t \in Thread :
       \/ Start(t) \/ NotFound(t) \/ Ask(t) \/ Confirm(t) \/ Poll(t) \/ TimesOut(t)
       \/ Apply(t) \/ ApplyFails(t) \/ CallBack(t)
  \/ \E n \in Search, m \in Member :
       Expire(n, m) \/ \E answer \in {"approved", "denied"} : Decide(n, m, answer)
  \/ Dies

Spec == Init /\ [][Next]_searchVars

-----------------------------------------------------------------------------
On == {t \in Thread : thread[t] # Off}

TypeOK ==
  /\ status \in Busy \cup {"idle", "not_found", "denied", "expired", "failed", "done"}
  /\ \A t \in On : /\ thread[t].at \in {"ask", "confirm", "poll", "apply", "call"}
                   /\ thread[t].n \in 1..searches /\ thread[t].left \in Seq(Member)
  /\ request \in [Search -> [Member ->
       {"none", "awaiting", "pending", "approved", "denied", "expired", "given"}]]
  /\ said \subseteq Search \X Member \X {"approved", "denied"}
  /\ called \subseteq Search \X Member /\ unheard \subseteq Search \X Member
  /\ applied \subseteq Search /\ searches \in 0..MaxSearch /\ dead \in 0..MaxDeath

\* The status the user is shown is that of the one search in progress, or of the last one:
\* only the payload of a member that showed this code, and whose user approved, is ever
\* applied, once; "not found", "denied" and "expired" mean that nothing was; and nobody is
\* left with a request to approve that no thread waits for, but by a lost answer, a time
\* that ran out or a death.
JoinTellsTheTruth ==
  /\ Cardinality(On) <= 1 /\ (status \in Busy <=> On # {})
  /\ \A n \in applied : \E m \in Right : request[n][m] = "given" /\ <<n, m, "approved">> \in said
  /\ status = "done" => searches \in applied
  /\ status \in {"not_found", "denied", "expired"} => searches \notin applied
  /\ status = "denied" => \E m \in Right : <<searches, m, "denied">> \in said
  /\ status = "not_found" => \A m \in Member :
       request[searches][m] \in {"pending", "approved"} => <<searches, m>> \in unheard
  /\ \A c \in called : c[1] \in applied /\ request[c[1]][c[2]] = "given"
=============================================================================
