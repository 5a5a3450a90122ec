---------------------------- MODULE DeviceAccess ----------------------------
(***************************************************************************)
(* Which backend lets which device in: api/app.py require_auth,            *)
(* api/device_tokens.py, api/access.py, the token that travels in a        *)
(* pairing (api/pairing.py _build_payload, api/join.py _apply and          *)
(* _send_callback), and the registry of devices that replicates.           *)
(*                                                                         *)
(* A token is <<backend, device, number>>: issued by the backend to the    *)
(* device; <<b, b, 0>> is the token of the installation b.  The devices    *)
(* are backends here: one presents the token it adopted when it joined, or *)
(* else that of its own installation (sync_peers._auth_headers).           *)
(***************************************************************************)
EXTENDS Naturals

CONSTANTS
  Device,
  Founder,   \* founded the space and owns the cycle: a device that is not revoked
  MaxIssue,  \* bound: tokens issued by one backend to one device
  None

AccessAssumption == Founder \in Device /\ None \notin Device /\ MaxIssue \in Nat

VARIABLES
  adopted,   \* the mesh_token of each device
  issued,    \* device_tokens: the tokens that open each backend
  registry,  \* the devices each one knows
  revoked,   \* the devices each one knows to be revoked
  invited,   \* the sealed payload a member has ready for each joiner
  link,      \* history: the member of the last pairing a device completed
  answered   \* history: <<d, b>>, d has sent its half of a pairing back to b

accessVars == <<adopted, issued, registry, revoked, invited, link, answered>>

Install(b) == <<b, b, 0>>
Token == Device \X Device \X (0 .. MaxIssue)
IssuedTo(b, d) == {t \in issued : t[1] = b /\ t[2] = d}

\* window_closed: every device of the registry but this one and the revoked
\* ones has a token of its own.
WindowClosed(b) ==
  \A d \in registry[b] \ (revoked[b] \cup {b}) : IssuedTo(b, d) # {}

Presented(d) == IF adopted[d] = <<>> THEN Install(d) ELSE adopted[d]

\* require_auth: a token of its own tells who comes; the token of the
\* installation always opens, the adopted one while the window is open.
Enters(d, b) ==
  LET t == Presented(d) IN
  IF t \in issued /\ t[1] = b
  THEN t[2] \notin revoked[b]
  ELSE t = Install(b) \/ (t = adopted[b] /\ ~WindowClosed(b))

Init ==
  /\ adopted = [d \in Device |-> <<>>]
  /\ issued = {}
  /\ registry = [d \in Device |-> {d}]
  /\ revoked = [d \in Device |-> {}]
  /\ invited = [d \in Device |-> <<>>]
  /\ link = [d \in Device |-> None]
  /\ answered = {}

\* Mutant: a device has one token, the last.
IssuedInstead(t) == issued' = {s \in issued : s[1] # t[1] \/ s[2] # t[2]} \cup {t}

\* device_tokens.issue adds a row: the former tokens of the device still open.
Issued(t) == issued' = issued \cup {t}

\* The member approves d: a token of its own when the store works, the token of
\* the installation otherwise (_issue_token).
Approve(b, d) ==
  /\ b # d /\ Enters(b, b)
  /\ \/ \E n \in 1 .. MaxIssue :
          LET t == <<b, d, n>> IN
          /\ t \notin issued /\ t # adopted[d]
          /\ Issued(t)
          /\ invited' = [invited EXCEPT ![d] = t]
     \/ /\ invited' = [invited EXCEPT ![d] = Install(b)]
        /\ UNCHANGED issued
  /\ UNCHANGED <<adopted, registry, revoked, link, answered>>

\* The payload never reaches the joiner.
Lose(d) ==
  /\ invited[d] # <<>>
  /\ invited' = [invited EXCEPT ![d] = <<>>]
  /\ UNCHANGED <<adopted, issued, registry, revoked, link, answered>>

\* The joiner adopts the token and reads the registry of the member ...
Join(d) ==
  LET b == invited[d][1] IN
  /\ invited[d] # <<>>
  /\ adopted' = [adopted EXCEPT ![d] = invited[d]]
  /\ link' = [link EXCEPT ![d] = b]
  /\ registry' = [registry EXCEPT ![d] = @ \cup registry[b]]
  /\ revoked' = [revoked EXCEPT ![d] = revoked[b]]
  /\ invited' = [invited EXCEPT ![d] = <<>>]
  /\ UNCHANGED <<issued, answered>>

\* ... and sends back a token for the member (_send_callback).  A member that
\* serves pins the certificate and leaves the token (pairing.adopt_callback).
Answer(d) ==
  LET b == link[d] IN
  /\ b # None /\ <<d, b>> \notin answered
  /\ \E n \in 1 .. MaxIssue : <<d, b, n>> \notin issued /\ Issued(<<d, b, n>>)
  /\ answered' = answered \cup {<<d, b>>}
  /\ UNCHANGED <<adopted, registry, revoked, invited, link>>

\* A pull that is let in brings the registry; whichever stamp is fresher says
\* whether a device is revoked.
Pull(d, b) ==
  /\ d # b /\ Enters(d, b)
  /\ registry' = [registry EXCEPT ![d] = @ \cup registry[b]]
  /\ revoked' \in {[revoked EXCEPT ![d] = r] : r \in {revoked[d] \cup revoked[b], revoked[d] \cap revoked[b],
                                                     revoked[d], revoked[b]}}
  /\ UNCHANGED <<adopted, issued, invited, link, answered>>

\* PATCH /device: neither the device itself nor the owner of the cycle.
Revoke(b, d) ==
  /\ d \in registry[b] \ {b, Founder}
  /\ revoked' = [revoked EXCEPT ![b] = @ \cup {d}]
  /\ UNCHANGED <<adopted, issued, registry, invited, link, answered>>

Restore(b, d) ==
  /\ d \in registry[b]
  /\ revoked' = [revoked EXCEPT ![b] = @ \ {d}]
  /\ UNCHANGED <<adopted, issued, registry, invited, link, answered>>

Next ==
  \E d \in Device :
    \/ Lose(d) \/ Join(d) \/ Answer(d)
    \/ \E b \in Device : Approve(b, d) \/ Pull(d, b) \/ Revoke(b, d) \/ Restore(b, d)

Spec == Init /\ [][Next]_accessVars
-----------------------------------------------------------------------------
TypeOK ==
  /\ adopted \in [Device -> Token \cup {<<>>}]
  /\ issued \subseteq Token
  /\ registry \in [Device -> SUBSET Device]
  /\ revoked \in [Device -> SUBSET Device]
  /\ invited \in [Device -> Token \cup {<<>>}]
  /\ link \in [Device -> Device \cup {None}]
  /\ answered \subseteq Device \X Device

\* "Le retirer invalide le sien, et lui seul" (pairing._build_payload): the
\* member of its last pairing lets a device in for as long as it does not hold
\* it for revoked, whatever is approved, lost, revoked or restored meanwhile,
\* and the migration window over or not.
PairedStillEnters ==
  \A d \in Device : link[d] # None => (d \notin revoked[link[d]] => Enters(d, link[d]))
=============================================================================
