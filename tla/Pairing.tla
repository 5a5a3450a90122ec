------------------------------- MODULE Pairing -------------------------------
(***************************************************************************)
(* The member's side of pairing: api/pairing.py.                           *)
(*                                                                         *)
(* The member shows a QR offer or a six-digit code, a joiner submits a     *)
(* request against it, the user approves, and the joiner polls for the     *)
(* sealed secrets.  Everything lives in memory, under one lock, for a time *)
(* Ttl (_OFFER_TTL and _REQUEST_TTL are equal); a restart forgets it all.  *)
(*                                                                         *)
(* Offers and codes are numbered in the order they are shown.  A sealed    *)
(* payload is represented by the offer or code whose key seals it: it can  *)
(* be opened by a joiner that used the same one.  An entry past its time   *)
(* is absent for every handler, for each of them calls _prune first (deny  *)
(* does not, but denying an expired request changes nothing anybody sees). *)
(***************************************************************************)
EXTENDS Naturals, FiniteSets

CONSTANTS
  Request,      \* requests that joiners may submit
  ByCode,       \* those made with a code; the others scan a QR
  Legacy,       \* clients of an earlier release, which do not say what they scanned
  NOffer,       \* bound: QR offers shown
  NCode,        \* bound: codes shown
  Ttl,          \* lifetime of offers, codes and requests
  MaxAttempts   \* _CODE_MAX_ATTEMPTS

ASSUME RequestAssumption == ByCode \subseteq Request /\ Legacy \subseteq Request \ ByCode
ASSUME BoundAssumption == NOffer \in Nat /\ NCode \in Nat /\ Ttl \in Nat
ASSUME AttemptsAssumption == MaxAttempts \in Nat \ {0}

VARIABLES
  offers,       \* the live QR offers
  offerAge,     \* their ages, saturating past Ttl
  lastOffer,    \* the newest offer shown
  code,         \* the code displayed, 0 for none
  codeAge,
  attempts,     \* failed confirmations counted against it
  lastCode,     \* the newest code shown
  status,       \* of each request; "gone" once it is out of the table
  age,          \* of each request, saturating past Ttl
  used,         \* the offer scanned or the code typed by the joiner (0: mistyped)
  key,          \* the offer or code the member's channel key comes from
  handed,       \* history: how many times the sealed payload left
  received,     \* history: joiners whose poll got the payload
  pinned,       \* requests whose joiner has its certificate pinned here
  approved,     \* history: requests the user approved
  misses        \* history: failed confirmations of the requests made under each code

offerVars == <<offers, offerAge, lastOffer>>
codeVars == <<code, codeAge, attempts, lastCode>>
channelVars == <<used, key>>
historyVars == <<handed, received, approved, misses>>
vars == <<offerVars, codeVars, status, age, channelVars, pinned, historyVars>>

Older(a) == IF a > Ttl THEN a ELSE a + 1
LiveOffers == {o \in offers : offerAge[o] <= Ttl}
LiveCode == IF codeAge <= Ttl THEN code ELSE 0
\* In the table after _prune.
Live(r) == status[r] \notin {"absent", "gone"} /\ age[r] <= Ttl

Becomes(r, s) == status' = [status EXCEPT ![r] = s]

-----------------------------------------------------------------------------
Init ==
  /\ offers = {} /\ offerAge = [o \in 1 .. NOffer |-> 0] /\ lastOffer = 0
  /\ code = 0 /\ codeAge = 0 /\ attempts = 0 /\ lastCode = 0
  /\ status = [r \in Request |-> "absent"]
  /\ age = [r \in Request |-> 0]
  /\ used = [r \in Request |-> 0]
  /\ key = [r \in Request |-> 0]
  /\ handed = [r \in Request |-> 0]
  /\ pinned = {}
  /\ received = {} /\ approved = {}
  /\ misses = [c \in 1 .. NCode |-> 0]

(***************************************************************************)
(* The member shows something.                                             *)
(***************************************************************************)

\* start_offer: beside the offers that are alive.
StartOffer ==
  /\ lastOffer < NOffer
  /\ lastOffer' = lastOffer + 1
  /\ offers' = LiveOffers \cup {lastOffer + 1}
  /\ UNCHANGED <<offerAge, codeVars, status, age, channelVars, pinned, historyVars>>

\* start_code_offer: in the place of the previous code, with a fresh counter.
StartCodeOffer ==
  /\ lastCode < NCode
  /\ lastCode' = lastCode + 1
  /\ code' = lastCode + 1 /\ codeAge' = 0 /\ attempts' = 0
  /\ UNCHANGED <<offerVars, status, age, channelVars, pinned, historyVars>>

(***************************************************************************)
(* The joiner submits.                                                     *)
(***************************************************************************)
\* Mutant: the request takes the device's identity for its own.
EnterAgain(r, s, u, k) ==
  /\ Becomes(r, s)
  /\ age' = [age EXCEPT ![r] = 0]
  /\ used' = [used EXCEPT ![r] = u]
  /\ key' = [key EXCEPT ![r] = k]
Enter(r, s, u, k) ==
  /\ status[r] = "absent"
  /\ Becomes(r, s)
  /\ age' = [age EXCEPT ![r] = 0]
  /\ used' = [used EXCEPT ![r] = u]
  /\ key' = [key EXCEPT ![r] = k]

\* Mutant: the newest offer, whatever the joiner names (the release before).
SubmitToNewest(r, o) ==
  /\ r \in Request \ ByCode
  /\ o <= lastOffer
  /\ \E newest \in LiveOffers :
       /\ \A other \in LiveOffers : other <= newest
       /\ Enter(r, "pending", o, newest)
  /\ UNCHANGED <<offerVars, codeVars, pinned, historyVars>>

\* submit_request: the offer the joiner names, or the newest alive.
SubmitRequest(r, o) ==
  /\ r \in Request \ ByCode
  /\ o <= lastOffer
  /\ \/ r \notin Legacy /\ o \in LiveOffers /\ Enter(r, "pending", o, o)
     \/ /\ r \in Legacy
        /\ \E newest \in LiveOffers :
             /\ \A other \in LiveOffers : other <= newest
             /\ Enter(r, "pending", o, newest)
  /\ UNCHANGED <<offerVars, codeVars, pinned, historyVars>>

\* submit_code_request: the member runs its half on the displayed code,
\* whatever the joiner typed.
SubmitCodeRequest(r, typed) ==
  /\ r \in ByCode
  /\ LiveCode # 0 /\ attempts < MaxAttempts
  /\ Enter(r, "awaiting_confirm", typed, LiveCode)
  /\ UNCHANGED <<offerVars, codeVars, pinned, historyVars>>

\* confirm_code_request, with the right code: on to the user's approval.  A
\* joiner that seals its certificate's fingerprint gets it pinned.
ConfirmRight(r) ==
  /\ Live(r) /\ status[r] = "awaiting_confirm"
  /\ used[r] = key[r]
  /\ Becomes(r, "pending")
  /\ pinned' \in {pinned, pinned \cup {r}}
  /\ UNCHANGED <<offerVars, codeVars, age, channelVars, historyVars>>

\* Mutants: one attempt too many; attempts that are not counted.
ConfirmWrongOnceMore(r) ==
  /\ Live(r) /\ status[r] = "awaiting_confirm"
  /\ used[r] # key[r]
  /\ Becomes(r, "gone")
  /\ misses' = [misses EXCEPT ![key[r]] = @ + 1]
  /\ IF attempts + 1 > MaxAttempts THEN code' = 0 /\ attempts' = 0
     ELSE code' = code /\ attempts' = attempts + 1
  /\ UNCHANGED <<offerVars, codeAge, lastCode, age, channelVars, pinned, handed, received, approved>>
ConfirmWrongUncounted(r) ==
  /\ Live(r) /\ status[r] = "awaiting_confirm"
  /\ used[r] # key[r]
  /\ Becomes(r, "gone")
  /\ misses' = [misses EXCEPT ![key[r]] = @ + 1]
  /\ UNCHANGED <<offerVars, codeVars, age, channelVars, pinned, handed, received, approved>>

\* ... with a mistyped one: the request goes, an attempt is burnt on the code
\* now displayed, and the last one takes the code down.
ConfirmWrong(r) ==
  /\ Live(r) /\ status[r] = "awaiting_confirm"
  /\ used[r] # key[r]
  /\ Becomes(r, "gone")
  /\ misses' = [misses EXCEPT ![key[r]] = @ + 1]
  /\ IF LiveCode = 0 THEN code' = 0 /\ attempts' = 0
     ELSE IF attempts + 1 >= MaxAttempts THEN code' = 0 /\ attempts' = 0
     ELSE code' = code /\ attempts' = attempts + 1
  /\ UNCHANGED <<offerVars, codeAge, lastCode, age, channelVars, pinned, handed, received, approved>>

(***************************************************************************)
(* The user decides, the joiner polls.                                     *)
(***************************************************************************)
Approve(r) ==
  /\ Live(r) /\ status[r] = "pending"
  /\ Becomes(r, "approved")
  /\ approved' = approved \cup {r}
  /\ UNCHANGED <<offerVars, codeVars, age, channelVars, pinned, handed, received, misses>>

\* deny looks at nothing but the presence of the request.
Deny(r) ==
  /\ status[r] \notin {"absent", "gone"}
  /\ Becomes(r, "denied")
  /\ UNCHANGED <<offerVars, codeVars, age, channelVars, pinned, historyVars>>

\* Mutant: the payload stays for the next poll.
PollAgain(r) ==
  /\ Live(r) /\ status[r] = "approved"
  /\ handed' = [handed EXCEPT ![r] = @ + 1]
  /\ received' \in {received, received \cup {r}}
  /\ UNCHANGED <<offerVars, codeVars, status, age, channelVars, pinned, approved, misses>>

\* poll_result hands the payload out; the answer may be lost on the way.
PollApproved(r) ==
  /\ Live(r) /\ status[r] = "approved"
  /\ Becomes(r, "delivered")
  /\ handed' = [handed EXCEPT ![r] = @ + 1]
  /\ received' \in {received, received \cup {r}}
  /\ UNCHANGED <<offerVars, codeVars, age, channelVars, pinned, approved, misses>>

PollDenied(r) ==
  /\ Live(r) /\ status[r] = "denied"
  /\ Becomes(r, "gone")
  /\ UNCHANGED <<offerVars, codeVars, age, channelVars, pinned, historyVars>>

\* adopt_callback, the return leg: the answer of a joiner that has opened the
\* payload is opened with the key it was sealed with, and its certificate pinned.
AdoptCallback(r) ==
  /\ Live(r) /\ status[r] \in {"approved", "delivered"}
  /\ r \in received /\ used[r] = key[r]
  /\ pinned' = pinned \cup {r}
  /\ UNCHANGED <<offerVars, codeVars, status, age, channelVars, historyVars>>

(***************************************************************************)
(* Time passes; the process restarts.                                      *)
(***************************************************************************)
Tick ==
  /\ offerAge' = [o \in 1 .. NOffer |-> IF o \in offers THEN Older(offerAge[o]) ELSE offerAge[o]]
  /\ codeAge' = IF code = 0 THEN codeAge ELSE Older(codeAge)
  /\ age' = [r \in Request |-> IF status[r] = "absent" THEN age[r] ELSE Older(age[r])]
  /\ UNCHANGED <<offers, lastOffer, code, attempts, lastCode, status, channelVars, pinned, historyVars>>

Restart ==
  /\ offers' = {} /\ code' = 0 /\ attempts' = 0
  /\ status' = [r \in Request |-> IF status[r] = "absent" THEN "absent" ELSE "gone"]
  /\ UNCHANGED <<offerAge, lastOffer, codeAge, lastCode, age, channelVars, pinned, historyVars>>

Next ==
  \/ StartOffer \/ StartCodeOffer
  \/ \E r \in Request :
       \/ \E o \in 1 .. NOffer : SubmitRequest(r, o)
       \/ \E typed \in 0 .. lastCode : SubmitCodeRequest(r, typed)
       \/ ConfirmRight(r) \/ ConfirmWrong(r)
       \/ Approve(r) \/ Deny(r) \/ PollApproved(r) \/ PollDenied(r)
       \/ AdoptCallback(r)
  \/ Tick \/ Restart

Spec == Init /\ [][Next]_vars

-----------------------------------------------------------------------------
TypeOK ==
  /\ offers \subseteq 1 .. NOffer
  /\ offerAge \in [1 .. NOffer -> 0 .. Ttl + 1]
  /\ lastOffer \in 0 .. NOffer
  /\ code \in 0 .. NCode /\ codeAge \in 0 .. Ttl + 1
  /\ attempts \in 0 .. MaxAttempts - 1
  /\ lastCode \in 0 .. NCode
  /\ status \in [Request -> {"absent", "awaiting_confirm", "pending", "approved",
                             "delivered", "denied", "gone"}]
  /\ age \in [Request -> 0 .. Ttl + 1]
  /\ used \in [Request -> Nat] /\ key \in [Request -> Nat]
  /\ handed \in [Request -> Nat]
  /\ pinned \subseteq Request /\ received \subseteq Request /\ approved \subseteq Request
  /\ misses \in [1 .. NCode -> Nat]

-----------------------------------------------------------------------------
(***************************************************************************)
(* Properties.                                                             *)
(***************************************************************************)

\* Offers coexist (the comment on _offers tells the failure): a joiner that
\* says which offer it scanned, or that typed the code, can open the payload
\* it receives, however many offers were shown or expired meanwhile.
PayloadOpens == \A r \in received \ Legacy : key[r] = used[r]

\* The payload leaves once (poll_result), after the user's approval, and, by
\* code, only for a joiner that proved it knows the code.
HandedOnceToWhomWasApproved ==
  \A r \in Request :
    /\ handed[r] <= 1
    /\ handed[r] = 1 => r \in approved /\ (r \in ByCode => used[r] = key[r])

\* The requests made under a code that may still be confirmed.
Open(c) == {r \in Request : status[r] = "awaiting_confirm" /\ key[r] = c}

\* Three misses kill a code (confirm_code_request), and not the requests that
\* were made under it: they keep one try each.  Once as many requests of a code
\* have failed as it allows, none joins those that are open under it, and each
\* further miss closes one of them; so a code is missed MaxAttempts times and
\* once more for each request that was open beside.
OnlyOpenTriesRemain ==
  [][\A c \in 1 .. NCode :
       /\ misses[c] >= MaxAttempts => Open(c)' \subseteq Open(c)
       /\ misses'[c] # misses[c] =>
            misses'[c] = misses[c] + 1 /\ \E r \in Open(c) : Open(c)' = Open(c) \ {r}]_vars

(***************************************************************************)
(* Pairing implements the invitation.                                      *)
(***************************************************************************)
invitation == [r \in Request |->
  IF handed[r] > 0 THEN "delivered"
  ELSE IF status[r] = "absent" THEN "none"
  ELSE IF ~Live(r) \/ status[r] = "denied" THEN "over"
  ELSE IF status[r] = "approved" THEN "granted"
  ELSE "waiting"]

Promise == INSTANCE Invitation WITH invitation <- invitation
ImplementsInvitation == Promise!Spec
=============================================================================
