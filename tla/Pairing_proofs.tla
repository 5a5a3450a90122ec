--------------------------- MODULE Pairing_proofs ---------------------------
(***************************************************************************)
(* Proofs about Pairing, for any number of offers, codes, requests, any    *)
(* lifetime and any limit on the attempts.                                 *)
(***************************************************************************)
EXTENDS Pairing, TLAPS

\* A joiner that says what it scanned shares the key of its request, and so
\* does a joiner by code whose request got to the user.
KeysAgree ==
  /\ \A r \in Request \ (ByCode \cup Legacy) : used[r] = key[r]
  /\ \A r \in ByCode : status[r] \in {"pending", "approved"} \/ r \in approved => used[r] = key[r]

\* A payload has left only of a request the user approved, and once it has
\* left the request never goes back.
HandedIsSettled ==
  \A r \in Request :
    /\ handed[r] \in {0, 1}
    /\ handed[r] = 1 => r \in approved /\ status[r] \in {"delivered", "denied", "gone"}
    /\ status[r] = "approved" => r \in approved
    /\ status[r] \in {"absent", "awaiting_confirm", "pending"} => r \notin approved
    /\ r \in received => handed[r] = 1

\* The attempts counted on a code are at least those of its own requests.
MissesAreCounted ==
  /\ code <= lastCode
  /\ code # 0 => misses[code] <= attempts
  /\ \A c \in 1 .. NCode : c > lastCode => misses[c] = 0
  /\ \A r \in Request : status[r] = "awaiting_confirm" => r \in ByCode /\ key[r] \in 1 .. lastCode

PairingInv == KeysAgree /\ HandedIsSettled /\ MissesAreCounted

-----------------------------------------------------------------------------
LEMMA EnterKeepsTypes ==
  ASSUME TypeOK, NEW r \in Request, NEW s \in {"pending", "awaiting_confirm"},
         NEW u \in Nat, NEW k \in Nat, Enter(r, s, u, k)
  PROVE  /\ status' \in [Request -> {"absent", "awaiting_confirm", "pending", "approved",
                                     "delivered", "denied", "gone"}]
         /\ age' \in [Request -> 0 .. Ttl + 1]
         /\ used' \in [Request -> Nat] /\ key' \in [Request -> Nat]
BY BoundAssumption DEF TypeOK, Enter, Becomes

(***************************************************************************)
(* Every variable keeps its type; in particular the counter of attempts    *)
(* never reaches the limit, for the last attempt takes the code down.      *)
(***************************************************************************)
THEOREM TypeCorrect == Spec => []TypeOK
<1> USE DEF TypeOK, offerVars, codeVars, channelVars, historyVars
<1>1. Init => TypeOK
  BY BoundAssumption, AttemptsAssumption DEF Init
<1>2. TypeOK /\ [Next]_vars => TypeOK'
  <2> SUFFICES ASSUME TypeOK, [Next]_vars PROVE TypeOK'
    OBVIOUS
  <2> USE BoundAssumption, AttemptsAssumption DEF Becomes, LiveOffers, LiveCode
  <2>1. CASE StartOffer
    <3>1. LiveOffers \subseteq 1 .. NOffer
      OBVIOUS
    <3>2. lastOffer + 1 \in 1 .. NOffer
      BY ONLY <2>1, lastOffer \in 0 .. NOffer, BoundAssumption DEF StartOffer
    <3>3. QED
      BY <2>1, <3>1, <3>2, SMTT(30) DEF StartOffer
  <2>2. CASE StartCodeOffer
    BY <2>2 DEF StartCodeOffer
  <2>3. ASSUME NEW r \in Request, NEW o \in 1 .. NOffer, SubmitRequest(r, o) PROVE TypeOK'
    <3>1. PICK k \in LiveOffers : Enter(r, "pending", o, k)
      BY <2>3 DEF SubmitRequest
    <3>2. o \in Nat /\ k \in Nat
      OBVIOUS
    <3>3. UNCHANGED <<offerVars, codeVars, pinned, historyVars>>
      BY <2>3 DEF SubmitRequest
    <3>4. QED
      BY <3>1, <3>2, <3>3, EnterKeepsTypes
  <2>4. ASSUME NEW r \in Request, NEW typed \in 0 .. lastCode, SubmitCodeRequest(r, typed) PROVE TypeOK'
    <3>1. Enter(r, "awaiting_confirm", typed, LiveCode)
      BY <2>4 DEF SubmitCodeRequest
    <3>2. typed \in Nat /\ LiveCode \in Nat
      OBVIOUS
    <3>3. UNCHANGED <<offerVars, codeVars, pinned, historyVars>>
      BY <2>4 DEF SubmitCodeRequest
    <3>4. QED
      BY <3>1, <3>2, <3>3, EnterKeepsTypes
  <2>5. ASSUME NEW r \in Request, ConfirmRight(r) \/ Approve(r) \/ Deny(r) \/ PollDenied(r) \/ AdoptCallback(r)
        PROVE  TypeOK'
    BY <2>5 DEF ConfirmRight, Approve, Deny, PollDenied, AdoptCallback
  <2>6. ASSUME NEW r \in Request, ConfirmWrong(r) PROVE TypeOK'
    <3>1. code' \in 0 .. NCode /\ attempts' \in 0 .. MaxAttempts - 1
      BY <2>6 DEF ConfirmWrong
    <3>2. misses' \in [1 .. NCode -> Nat]
      <4>1. misses' = [misses EXCEPT ![key[r]] = @ + 1]
        BY <2>6 DEF ConfirmWrong
      <4>2. CASE key[r] \in 1 .. NCode
        BY <4>1, <4>2
      <4>3. CASE key[r] \notin 1 .. NCode
        <5>1. misses' = misses
          BY <4>1, <4>3
        <5>2. QED
          BY <5>1
      <4>4. QED
        BY <4>2, <4>3
    <3>3. status' \in [Request -> {"absent", "awaiting_confirm", "pending", "approved",
                                   "delivered", "denied", "gone"}]
      BY <2>6 DEF ConfirmWrong
    <3>4. QED
      BY <2>6, <3>1, <3>2, <3>3 DEF ConfirmWrong
  <2>7. ASSUME NEW r \in Request, PollApproved(r) PROVE TypeOK'
    BY <2>7 DEF PollApproved
  <2>8. CASE Tick
    BY <2>8, SMTT(30) DEF Tick, Older
  <2>9. CASE Restart
    BY <2>9 DEF Restart
  <2>10. CASE UNCHANGED vars
    BY <2>10 DEF vars
  <2>11. QED
    BY <2>1, <2>2, <2>3, <2>4, <2>5, <2>6, <2>7, <2>8, <2>9, <2>10 DEF Next
<1>3. QED
  BY <1>1, <1>2, PTL DEF Spec

-----------------------------------------------------------------------------
LEMMA PairingStep == TypeOK /\ PairingInv /\ [Next]_vars => PairingInv'
<1> SUFFICES ASSUME TypeOK, PairingInv, [Next]_vars PROVE PairingInv'
  OBVIOUS
<1> USE BoundAssumption, AttemptsAssumption, RequestAssumption
    DEF TypeOK, PairingInv, KeysAgree, HandedIsSettled, MissesAreCounted, Becomes,
        offerVars, codeVars, channelVars, historyVars
<1>1. CASE StartOffer
  BY <1>1 DEF StartOffer
<1>2. CASE StartCodeOffer
  BY <1>2 DEF StartCodeOffer
<1>3. ASSUME NEW r \in Request, NEW o \in 1 .. NOffer, SubmitRequest(r, o) PROVE PairingInv'
  <2>1. PICK k \in LiveOffers : Enter(r, "pending", o, k) /\ (r \notin Legacy => k = o)
    BY <1>3 DEF SubmitRequest
  <2>2. UNCHANGED <<code, attempts, lastCode, handed, received, approved, misses>> /\ r \notin ByCode
    BY <1>3 DEF SubmitRequest
  <2>3. status[r] = "absent"
    BY <2>1 DEF Enter
  <2>4. KeysAgree'
    BY <2>1, <2>2 DEF Enter
  <2>5. HandedIsSettled'
    BY <2>1, <2>2, <2>3 DEF Enter
  <2>6. MissesAreCounted'
    BY <2>1, <2>2 DEF Enter
  <2>7. QED
    BY <2>4, <2>5, <2>6
<1>4. ASSUME NEW r \in Request, NEW typed \in 0 .. lastCode, SubmitCodeRequest(r, typed) PROVE PairingInv'
  <2>1. Enter(r, "awaiting_confirm", typed, code) /\ code # 0 /\ r \in ByCode
    BY <1>4 DEF SubmitCodeRequest, LiveCode
  <2>2. UNCHANGED <<code, attempts, lastCode, handed, received, approved, misses>>
    BY <1>4 DEF SubmitCodeRequest
  <2>3. status[r] = "absent" /\ code \in 1 .. lastCode
    BY <2>1 DEF Enter
  <2>4. KeysAgree'
    <3>1. r \notin approved
      BY <2>3
    <3>2. QED
      BY <2>1, <2>2, <3>1 DEF Enter
  <2>5. HandedIsSettled'
    BY <2>1, <2>2, <2>3 DEF Enter
  <2>6. MissesAreCounted'
    BY <2>1, <2>2, <2>3 DEF Enter
  <2>7. QED
    BY <2>4, <2>5, <2>6
<1>5. ASSUME NEW r \in Request, ConfirmRight(r) PROVE PairingInv'
  BY <1>5 DEF ConfirmRight
<1>6. ASSUME NEW r \in Request, ConfirmWrong(r) PROVE PairingInv'
  <2>1. status' = [status EXCEPT ![r] = "gone"] /\ status[r] = "awaiting_confirm"
    BY <1>6 DEF ConfirmWrong
  <2>2. UNCHANGED <<lastCode, used, key, handed, received, approved>>
    BY <1>6 DEF ConfirmWrong
  <2>3. misses' = [misses EXCEPT ![key[r]] = @ + 1] /\ key[r] \in 1 .. lastCode
    BY <1>6, <2>1 DEF ConfirmWrong
  <2>4. code' = 0 \/ (code' = code /\ attempts' = attempts + 1)
    BY <1>6 DEF ConfirmWrong
  <2>5. \A c \in 1 .. NCode : misses'[c] <= misses[c] + 1 /\ (c # key[r] => misses'[c] = misses[c])
    BY <2>3
  <2>6. KeysAgree'
    BY <2>1, <2>2
  <2>7. HandedIsSettled'
    BY <2>1, <2>2
  <2>8. MissesAreCounted'
    <3>1. code' <= lastCode'
      BY <2>2, <2>4
    <3>2. ASSUME code' # 0 PROVE misses'[code'] <= attempts'
      <4>1. code' = code /\ attempts' = attempts + 1 /\ code \in 1 .. NCode
        BY <2>4, <3>2
      <4>2. misses'[code] <= misses[code] + 1 /\ misses[code] <= attempts
        BY <2>5, <4>1
      <4>3. misses[code] \in Nat /\ attempts \in Nat /\ misses'[code] \in Nat
        BY <2>3, <4>1
      <4>4. misses'[code] <= attempts + 1
        BY ONLY <4>2, <4>3
      <4>5. QED
        BY <4>1, <4>4
    <3>3. \A c \in 1 .. NCode : c > lastCode' => misses'[c] = 0
      BY <2>2, <2>3, <2>5
    <3>4. \A q \in Request : status'[q] = "awaiting_confirm" => q \in ByCode /\ key'[q] \in 1 .. lastCode'
      BY <2>1, <2>2
    <3>5. QED
      BY <3>1, <3>2, <3>3, <3>4
  <2>9. QED
    BY <2>6, <2>7, <2>8
<1>7. ASSUME NEW r \in Request, Approve(r) PROVE PairingInv'
  BY <1>7 DEF Approve
<1>8. ASSUME NEW r \in Request, Deny(r) \/ PollDenied(r) PROVE PairingInv'
  <2>1. CASE Deny(r)
    BY <2>1 DEF Deny
  <2>2. CASE PollDenied(r)
    BY <2>2 DEF PollDenied
  <2>3. QED
    BY <1>8, <2>1, <2>2
<1>9. ASSUME NEW r \in Request, PollApproved(r) PROVE PairingInv'
  BY <1>9 DEF PollApproved
<1>10. ASSUME NEW r \in Request, AdoptCallback(r) PROVE PairingInv'
  BY <1>10 DEF AdoptCallback
<1>11. CASE Tick
  BY <1>11 DEF Tick
<1>12. CASE Restart
  <2>1. \A r \in Request : status'[r] \in {"absent", "gone"} /\ (status'[r] = "absent" => status[r] = "absent")
    BY <1>12 DEF Restart
  <2>2. code' = 0 /\ UNCHANGED <<lastCode, used, key, handed, received, approved, misses>>
    BY <1>12 DEF Restart
  <2>3. KeysAgree'
    BY <2>1, <2>2
  <2>4. HandedIsSettled'
    <3> SUFFICES ASSUME NEW r \in Request PROVE
          /\ handed[r] \in {0, 1}
          /\ handed[r] = 1 => r \in approved /\ status'[r] \in {"delivered", "denied", "gone"}
          /\ status'[r] = "approved" => r \in approved
          /\ status'[r] \in {"absent", "awaiting_confirm", "pending"} => r \notin approved
          /\ r \in received => handed[r] = 1
      BY <2>2
    <3>1. status'[r] \in {"absent", "gone"} /\ (status'[r] = "absent" => status[r] = "absent")
      BY <2>1
    <3>2. QED
      BY <3>1
  <2>5. MissesAreCounted'
    <3>1. \A q \in Request : status'[q] # "awaiting_confirm"
      BY <2>1
    <3>2. lastCode \in Nat
      OBVIOUS
    <3>3. QED
      BY <2>2, <3>1, <3>2
  <2>6. QED
    BY <2>3, <2>4, <2>5
<1>13. CASE UNCHANGED vars
  BY <1>13 DEF vars
<1>14. QED
  BY <1>1, <1>2, <1>3, <1>4, <1>5, <1>6, <1>7, <1>8, <1>9, <1>10, <1>11, <1>12, <1>13 DEF Next

LEMMA PairingInvariant == Spec => []PairingInv
<1>1. Init => PairingInv
  BY BoundAssumption, RequestAssumption
     DEF Init, PairingInv, KeysAgree, HandedIsSettled, MissesAreCounted
<1>2. QED
  BY <1>1, PairingStep, TypeCorrect, PTL DEF Spec

(***************************************************************************)
(* A joiner that names its offer, or proved its code, can open what it     *)
(* receives.                                                               *)
(***************************************************************************)
THEOREM ReceivedOpens == Spec => []PayloadOpens
<1>1. TypeOK /\ PairingInv => PayloadOpens
  BY RequestAssumption DEF TypeOK, PairingInv, KeysAgree, HandedIsSettled, PayloadOpens
<1>2. QED
  BY <1>1, PairingInvariant, TypeCorrect, PTL

(***************************************************************************)
(* The secrets leave once, and only for a joiner the user approved.        *)
(***************************************************************************)
THEOREM SecretsLeaveOnce == Spec => []HandedOnceToWhomWasApproved
<1>1. PairingInv => HandedOnceToWhomWasApproved
  BY RequestAssumption DEF PairingInv, KeysAgree, HandedIsSettled, HandedOnceToWhomWasApproved
<1>2. QED
  BY <1>1, PairingInvariant, PTL

(***************************************************************************)
(* Once a code was missed as often as it allows, only the requests that    *)
(* are open under it may still be tried, once each: while it is displayed  *)
(* its misses are among the attempts counted, and the limit takes it down. *)
(***************************************************************************)
THEOREM OpenTriesAreLast == Spec => OnlyOpenTriesRemain
<1> DEFINE Kept(c) ==
       /\ misses[c] >= MaxAttempts => Open(c)' \subseteq Open(c)
       /\ misses'[c] # misses[c] =>
            misses'[c] = misses[c] + 1 /\ \E r \in Open(c) : Open(c)' = Open(c) \ {r}
<1>1. TypeOK /\ PairingInv /\ [Next]_vars => \A c \in 1 .. NCode : Kept(c)
  <2> SUFFICES ASSUME TypeOK, PairingInv, [Next]_vars, NEW c \in 1 .. NCode PROVE Kept(c)
    OBVIOUS
  <2> USE DEF Becomes, Open
  <2>a. ASSUME misses' = misses, Open(c)' \subseteq Open(c) PROVE Kept(c)
    BY <2>a
  <2>b. ASSUME misses' = misses, key' = key,
               \A r \in Request : status'[r] = "awaiting_confirm" => status[r] = "awaiting_confirm"
        PROVE  Kept(c)
    BY <2>a, <2>b
  <2>1. ASSUME NEW r \in Request, NEW typed \in 0 .. lastCode, SubmitCodeRequest(r, typed) PROVE Kept(c)
    <3>1. Enter(r, "awaiting_confirm", typed, code) /\ code # 0 /\ misses' = misses
      BY <2>1 DEF SubmitCodeRequest, LiveCode, historyVars
    <3>2. misses[code] <= attempts /\ attempts < MaxAttempts
      BY <3>1, AttemptsAssumption DEF PairingInv, MissesAreCounted, TypeOK
    <3>3. CASE c = code
      <4>1. ~(misses[c] >= MaxAttempts)
        <5>1. misses[c] \in Nat /\ attempts \in Nat /\ MaxAttempts \in Nat
          BY AttemptsAssumption DEF TypeOK
        <5>2. misses[c] <= attempts /\ attempts < MaxAttempts
          BY <3>2, <3>3
        <5>3. QED
          BY ONLY <5>1, <5>2
      <4>2. QED
        BY <3>1, <4>1
    <3>4. CASE c # code
      <4>1. Open(c)' \subseteq Open(c)
        BY <3>1, <3>4 DEF Enter, TypeOK
      <4>2. QED
        BY <3>1, <4>1, <2>a
    <3>5. QED
      BY <3>3, <3>4
  <2>2. ASSUME NEW r \in Request, NEW o \in 1 .. NOffer, SubmitRequest(r, o) PROVE Kept(c)
    <3>1. PICK k \in LiveOffers : Enter(r, "pending", o, k)
      BY <2>2 DEF SubmitRequest
    <3>2. misses' = misses
      BY <2>2 DEF SubmitRequest, historyVars
    <3>3. Open(c)' \subseteq Open(c)
      BY <3>1 DEF Enter, TypeOK
    <3>4. QED
      BY <3>2, <3>3, <2>a
  <2>3. ASSUME NEW r \in Request, ConfirmWrong(r) PROVE Kept(c)
    <3>1. /\ status[r] = "awaiting_confirm" /\ status' = [status EXCEPT ![r] = "gone"]
          /\ misses' = [misses EXCEPT ![key[r]] = @ + 1] /\ key' = key
      BY <2>3 DEF ConfirmWrong, channelVars
    <3>2. CASE c = key[r]
      <4>1. r \in Open(c) /\ Open(c)' = Open(c) \ {r} /\ misses'[c] = misses[c] + 1
        BY <3>1, <3>2 DEF TypeOK
      <4>2. QED
        BY <4>1
    <3>3. CASE c # key[r]
      <4>1. misses'[c] = misses[c] /\ Open(c)' \subseteq Open(c)
        BY <3>1, <3>3 DEF TypeOK
      <4>2. QED
        BY <4>1
    <3>4. QED
      BY <3>2, <3>3
  <2>4. ASSUME NEW r \in Request, ConfirmRight(r) \/ Approve(r) \/ Deny(r) \/ PollApproved(r)
                                  \/ PollDenied(r) \/ AdoptCallback(r)
        PROVE  Kept(c)
    <3>1. misses' = misses /\ key' = key
      BY <2>4 DEF ConfirmRight, Approve, Deny, PollApproved, PollDenied, AdoptCallback, historyVars, channelVars
    <3>2. \A q \in Request : status'[q] = "awaiting_confirm" => status[q] = "awaiting_confirm"
      BY <2>4 DEF ConfirmRight, Approve, Deny, PollApproved, PollDenied, AdoptCallback, TypeOK
    <3>3. QED
      BY <3>1, <3>2, <2>b
  <2>5. CASE StartOffer \/ StartCodeOffer \/ Tick \/ UNCHANGED vars
    BY <2>5, <2>b DEF StartOffer, StartCodeOffer, Tick, vars, historyVars, channelVars
  <2>6. CASE Restart
    BY <2>6, <2>b DEF Restart, historyVars, channelVars
  <2>7. QED
    BY <2>1, <2>2, <2>3, <2>4, <2>5, <2>6 DEF Next
<1>2. QED
  BY <1>1, PairingInvariant, TypeCorrect, PTL DEF Spec, OnlyOpenTriesRemain

-----------------------------------------------------------------------------
\* Where a request stands for the user, alone.
Shown(r) == invitation[r]

LEMMA ShownCases ==
  ASSUME TypeOK, NEW r \in Request
  PROVE  /\ invitation = [q \in Request |-> Shown(q)]
         /\ handed[r] > 0 => Shown(r) = "delivered"
         /\ handed[r] = 0 /\ status[r] = "absent" => Shown(r) = "none"
         /\ handed[r] = 0 /\ status[r] # "absent" /\ (~Live(r) \/ status[r] = "denied") => Shown(r) = "over"
         /\ handed[r] = 0 /\ Live(r) /\ status[r] = "approved" => Shown(r) = "granted"
         /\ handed[r] = 0 /\ Live(r) /\ status[r] \in {"awaiting_confirm", "pending"} => Shown(r) = "waiting"
BY DEF TypeOK, Shown, invitation, Live

\* A step that only closes requests is a lapse or nothing.
LEMMA ClosingLapses ==
  ASSUME TypeOK, TypeOK',
         \A r \in Request : Shown(r)' = Shown(r)
                           \/ (Shown(r) \in {"waiting", "granted"} /\ Shown(r)' = "over")
  PROVE  [Promise!Next]_invitation
<1> DEFINE S == {r \in Request : Shown(r)' # Shown(r)}
<1>1. S \in SUBSET {r \in Request : invitation[r] \in {"waiting", "granted"}}
  BY DEF Shown
<1>2. invitation' = [r \in Request |-> IF r \in S THEN "over" ELSE invitation[r]]
  <2>1. invitation' = [r \in Request |-> Shown(r)']
    BY DEF invitation, Shown
  <2>2. \A r \in Request : Shown(r)' = IF r \in S THEN "over" ELSE invitation[r]
    BY DEF Shown
  <2>3. QED
    BY <2>1, <2>2
<1>3. QED
  BY <1>1, <1>2 DEF Promise!Next, Promise!Lapse

\* A step that moves one request alone is the move of that request.
LEMMA OneMoves ==
  ASSUME TypeOK, TypeOK', NEW r \in Request, NEW to,
         Shown(r)' = to, \A q \in Request \ {r} : Shown(q)' = Shown(q)
  PROVE  Promise!Moves(r, Shown(r), to)
<1>1. invitation' = [q \in Request |-> Shown(q)'] /\ invitation = [q \in Request |-> Shown(q)]
  BY DEF invitation, Shown
<1>2. QED
  BY <1>1 DEF Promise!Moves

(***************************************************************************)
(* Pairing implements the invitation: whatever is shown, mistyped, denied, *)
(* lost, expired or forgotten, each request is granted and delivered at    *)
(* most once and stays over when it is over.                               *)
(***************************************************************************)
LEMMA InvitationStep ==
  TypeOK /\ TypeOK' /\ PairingInv /\ [Next]_vars => [Promise!Next]_invitation
<1> SUFFICES ASSUME TypeOK, TypeOK', PairingInv, [Next]_vars PROVE [Promise!Next]_invitation
  OBVIOUS
<1>0. \A r \in Request : status[r] \in {"absent", "awaiting_confirm", "pending", "approved"} => handed[r] = 0
  BY DEF PairingInv, HandedIsSettled
<1>a. ASSUME UNCHANGED <<status, age, handed>> PROVE [Promise!Next]_invitation
  BY <1>a DEF invitation, Live
<1>1. ASSUME NEW r \in Request, NEW s \in {"pending", "awaiting_confirm"}, NEW u, NEW k,
             Enter(r, s, u, k), handed' = handed
      PROVE  [Promise!Next]_invitation
  <2>1. status[r] = "absent" /\ status' = [status EXCEPT ![r] = s] /\ age' = [age EXCEPT ![r] = 0]
    BY <1>1 DEF Enter, Becomes
  <2>2. Shown(r) = "none"
    BY <1>0, <2>1, ShownCases
  <2>3. Shown(r)' = "waiting"
    BY <1>0, <1>1, <2>1, BoundAssumption DEF Shown, invitation, Live, TypeOK
  <2>4. \A q \in Request \ {r} : Shown(q)' = Shown(q)
    BY <1>1, <2>1 DEF Shown, invitation, Live, TypeOK
  <2>5. QED
    BY <2>2, <2>3, <2>4, OneMoves DEF Promise!Next, Promise!Ask
<1>2. ASSUME NEW r \in Request, NEW s \in {"pending", "approved", "denied", "gone", "delivered"},
             status' = [status EXCEPT ![r] = s], age' = age,
             \A q \in Request \ {r} : handed'[q] = handed[q]
      PROVE  \A q \in Request \ {r} : Shown(q)' = Shown(q)
  BY <1>2 DEF Shown, invitation, Live, TypeOK
<1>3. ASSUME NEW r \in Request, ConfirmRight(r) PROVE [Promise!Next]_invitation
  <2>1. Shown(r)' = Shown(r)
    BY <1>3, <1>0 DEF ConfirmRight, Becomes, Shown, invitation, Live, TypeOK, historyVars
  <2>2. \A q \in Request \ {r} : Shown(q)' = Shown(q)
    BY <1>2, <1>3 DEF ConfirmRight, Becomes, historyVars
  <2>3. QED
    BY <2>1, <2>2, ClosingLapses
<1>4. ASSUME NEW r \in Request, ConfirmWrong(r) \/ Deny(r) \/ PollDenied(r) PROVE [Promise!Next]_invitation
  <2>1. PICK s \in {"denied", "gone"} : status' = [status EXCEPT ![r] = s]
    BY <1>4 DEF ConfirmWrong, Deny, PollDenied, Becomes
  <2>2. age' = age /\ handed' = handed /\ status[r] \notin {"absent", "gone"}
    BY <1>4 DEF ConfirmWrong, Deny, PollDenied, historyVars, Live
  <2>3. \A q \in Request \ {r} : Shown(q)' = Shown(q)
    BY <1>2, <2>1, <2>2
  <2>4. Shown(r)' = Shown(r) \/ (Shown(r) \in {"waiting", "granted"} /\ Shown(r)' = "over")
    <3>1. CASE handed[r] > 0
      BY <2>2, <3>1 DEF Shown, invitation
    <3>2. CASE handed[r] = 0
      BY <2>1, <2>2, <3>2 DEF Shown, invitation, Live, TypeOK
    <3>3. QED
      BY <3>1, <3>2 DEF PairingInv, HandedIsSettled
  <2>5. QED
    BY <2>3, <2>4, ClosingLapses
<1>5. ASSUME NEW r \in Request, Approve(r) PROVE [Promise!Next]_invitation
  <2>1. Shown(r) = "waiting" /\ Shown(r)' = "granted"
    BY <1>5, <1>0 DEF Approve, Becomes, Shown, invitation, Live, TypeOK
  <2>2. \A q \in Request \ {r} : Shown(q)' = Shown(q)
    BY <1>2, <1>5 DEF Approve, Becomes
  <2>3. QED
    BY <2>1, <2>2, OneMoves DEF Promise!Next, Promise!Grant
<1>6. ASSUME NEW r \in Request, PollApproved(r) PROVE [Promise!Next]_invitation
  <2>1. Shown(r) = "granted" /\ Shown(r)' = "delivered"
    BY <1>6, <1>0, SMTT(30) DEF PollApproved, Becomes, Shown, invitation, Live, TypeOK
  <2>2. \A q \in Request \ {r} : Shown(q)' = Shown(q)
    BY <1>2, <1>6 DEF PollApproved, Becomes, TypeOK
  <2>3. QED
    BY <2>1, <2>2, OneMoves DEF Promise!Next, Promise!Deliver
<1>7. CASE Tick
  <2>1. status' = status /\ handed' = handed
    BY <1>7 DEF Tick, historyVars
  <2>2. \A r \in Request : age[r] > Ttl => age'[r] > Ttl
    BY <1>7, BoundAssumption DEF Tick, Older, TypeOK
  <2>3. \A r \in Request : Live(r)' => Live(r)
    <3> SUFFICES ASSUME NEW r \in Request, Live(r)' PROVE age[r] <= Ttl /\ status[r] \notin {"absent", "gone"}
      BY DEF Live
    <3>1. age'[r] <= Ttl /\ status'[r] \notin {"absent", "gone"}
      BY DEF Live
    <3>2. age[r] \in Nat /\ age'[r] \in Nat /\ Ttl \in Nat
      BY BoundAssumption DEF TypeOK
    <3>3. ~(age[r] > Ttl)
      BY <2>2, <3>1, <3>2
    <3>4. QED
      BY <2>1, <3>1, <3>2, <3>3
  <2>4. \A r \in Request : Shown(r)' = Shown(r)
                           \/ (Shown(r) \in {"waiting", "granted"} /\ Shown(r)' = "over")
    BY <2>1, <2>3 DEF Shown, invitation
  <2>5. QED
    BY <2>4, ClosingLapses
<1>8. CASE Restart
  <2>1. age' = age /\ handed' = handed
        /\ \A r \in Request : status'[r] = IF status[r] = "absent" THEN "absent" ELSE "gone"
    BY <1>8 DEF Restart, historyVars
  <2>2. \A r \in Request : Shown(r)' = Shown(r)
                           \/ (Shown(r) \in {"waiting", "granted"} /\ Shown(r)' = "over")
    BY <2>1 DEF Shown, invitation, Live
  <2>3. QED
    BY <2>2, ClosingLapses
<1>9. ASSUME NEW r \in Request, NEW o \in 1 .. NOffer, SubmitRequest(r, o) PROVE [Promise!Next]_invitation
  BY <1>1, <1>9 DEF SubmitRequest, historyVars
<1>10. ASSUME NEW r \in Request, NEW typed \in 0 .. lastCode, SubmitCodeRequest(r, typed)
       PROVE  [Promise!Next]_invitation
  BY <1>1, <1>10 DEF SubmitCodeRequest, historyVars
<1>11. StartOffer \/ StartCodeOffer \/ (\E r \in Request : AdoptCallback(r)) \/ UNCHANGED vars
       => UNCHANGED <<status, age, handed>>
  BY DEF StartOffer, StartCodeOffer, AdoptCallback, historyVars, vars
<1>12. QED
  BY <1>a, <1>3, <1>4, <1>5, <1>6, <1>7, <1>8, <1>9, <1>10, <1>11 DEF Next

THEOREM PairingImplementsInvitation == Spec => ImplementsInvitation
<1>1. Init => Promise!Init
  BY DEF Init, Promise!Init, invitation
<1>2. QED
  BY <1>1, InvitationStep, PairingInvariant, TypeCorrect, PTL DEF Spec, ImplementsInvitation, Promise!Spec
=============================================================================
