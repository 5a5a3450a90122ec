-------------------------------- MODULE Identity --------------------------------
(***************************************************************************)
(* What a home keeps so that a backend is the same from one start to the   *)
(* next: its certificate and its key, which the peers have pinned, and the *)
(* access token that the app of this machine has copied.                   *)
(*                                                                         *)
(* api/tls.py ensure_cert and fingerprint; api/access.py resolve_token;    *)
(* api/__main__.py serve; the start and the announcement (api/app.py       *)
(* lifespan, api/discovery.py).  Two backends may be started on one home,  *)
(* requests of one backend are served by several threads, a process may    *)
(* die, and the disk may refuse a write, at each step.                     *)
(*                                                                         *)
(* A file is None, Torn (created or truncated, nothing in it yet), or the  *)
(* number of the pair or of the token it holds.  Left out: a token given   *)
(* by the environment, the development mode, the absence of the package    *)
(* that makes certificates, the rights on the files.                       *)
(***************************************************************************)
EXTENDS Naturals, FiniteSets

CONSTANTS
  Backend,   \* processes of this home
  Request,   \* bound: requests served at the same time
  MaxPair,   \* bound: pairs made
  MaxToken,  \* bound: tokens made
  MaxDeath,  \* bound: deaths
  None, Torn

IdentityAssumption ==
  /\ MaxPair \in Nat /\ MaxToken \in Nat /\ MaxDeath \in Nat
  /\ None # Torn /\ {None, Torn} \cap Nat = {}

VARIABLES
  cert, key, bearer,  \* tls_cert.pem, tls_key.pem, api_token
  backend,   \* of each process: where it is, the pair it makes, the token it has in _cache
  request,   \* resolve_token in progress: its process, where it is, the token it makes
  pairs, bearers, ended,
  pinned,    \* history: the fingerprints announced or put in a payload
  accepted,  \* history: the tokens that have opened this backend
  torn,      \* history: a process died, or the disk was full, inside the write of the certificate
  raced,     \* history: two processes made a pair at the same time
  doubled    \* history: a token was made beside another, or could not be written

identityVars == <<cert, key, bearer, backend, request, pairs, bearers, ended, pinned, accepted, torn, raced, doubled>>

Stopped == [at |-> "off", pair |-> None, cache |-> None]
Served == [of |-> None, at |-> "none", new |-> None]
Making == {"make", "key", "halfway", "cert"}

Init ==
  /\ cert = None /\ key = None /\ bearer = None
  /\ backend = [p \in Backend |-> Stopped] /\ request = [h \in Request |-> Served]
  /\ pairs = 0 /\ bearers = 0 /\ ended = 0 /\ pinned = {} /\ accepted = {}
  /\ torn = FALSE /\ raced = FALSE /\ doubled = FALSE

Goes(p, at) == backend' = [backend EXCEPT ![p].at = at]

(***************************************************************************)
(* ensure_cert.                                                            *)
(***************************************************************************)
\* Both files are there, whatever is in them, or a new pair is made.
Start(p) ==
  /\ backend[p] = Stopped
  /\ \/ cert # None /\ key # None /\ Goes(p, "load") /\ UNCHANGED <<pairs, raced>>
     \/ /\ cert = None \/ key = None
        /\ pairs < MaxPair /\ pairs' = pairs + 1
        /\ backend' = [backend EXCEPT ![p].at = "make", ![p].pair = pairs + 1]
        /\ raced' = (raced \/ \E q \in Backend \ {p} : backend[q].at \in Making)
  /\ UNCHANGED <<cert, key, bearer, request, bearers, ended, pinned, accepted, torn, doubled>>

OpenKey(p) == backend[p].at = "make" /\ key' = Torn /\ Goes(p, "key") /\ UNCHANGED cert
WriteKey(p) == backend[p].at = "key" /\ key' = backend[p].pair /\ Goes(p, "halfway") /\ UNCHANGED cert
OpenCert(p) == backend[p].at = "halfway" /\ cert' = Torn /\ Goes(p, "cert") /\ UNCHANGED key
WriteCert(p) == backend[p].at = "cert" /\ cert' = backend[p].pair /\ Goes(p, "load") /\ UNCHANGED key

\* The key first, then the certificate.
Make(p) ==
  /\ OpenKey(p) \/ WriteKey(p) \/ OpenCert(p) \/ WriteCert(p)
  /\ UNCHANGED <<bearer, request, pairs, bearers, ended, pinned, accepted, torn, raced, doubled>>

(***************************************************************************)
(* The process.                                                            *)
(***************************************************************************)
\* The TLS socket reads both files, which must be of one pair.
Loadable == cert \notin {None, Torn} /\ cert = key

Load(p) ==
  /\ backend[p].at = "load"
  /\ IF Loadable THEN Goes(p, "loaded") ELSE backend' = [backend EXCEPT ![p] = Stopped]
  /\ UNCHANGED <<cert, key, bearer, request, pairs, bearers, ended, pinned, accepted, torn, raced, doubled>>

\* fingerprint(): of the file, not of what the socket has loaded.
Fingerprint == {cert} \ {None, Torn}

\* lifespan announces, and only then is the port bound: one process has it.
Announce(p) ==
  /\ backend[p].at = "loaded"
  /\ pinned' = pinned \cup Fingerprint
  /\ IF \E q \in Backend : backend[q].at = "serving"
     THEN backend' = [backend EXCEPT ![p] = Stopped]
     ELSE Goes(p, "serving")
  /\ UNCHANGED <<cert, key, bearer, request, pairs, bearers, ended, accepted, torn, raced, doubled>>

\* A pairing offers the fingerprint, or seals it in its payload.
OfferPairing(p) ==
  /\ backend[p].at = "serving"
  /\ pinned' = pinned \cup Fingerprint
  /\ UNCHANGED <<cert, key, bearer, backend, request, pairs, bearers, ended, accepted, torn, raced, doubled>>

\* A death, or an error of the disk in ensure_cert, which nothing catches.
Dies(p) ==
  /\ backend[p] # Stopped /\ ended < MaxDeath /\ ended' = ended + 1
  /\ torn' = (torn \/ backend[p].at = "cert")
  /\ backend' = [backend EXCEPT ![p] = Stopped]
  /\ request' = [h \in Request |-> IF request[h].of = p THEN Served ELSE request[h]]
  /\ UNCHANGED <<cert, key, bearer, pairs, bearers, pinned, accepted, raced, doubled>>

(***************************************************************************)
(* resolve_token, in require_auth or in the headers of a pull.             *)
(***************************************************************************)
Holds(h, p, token) ==
  /\ backend' = [backend EXCEPT ![p].cache = token]
  /\ request' = [request EXCEPT ![h] = Served]
  /\ accepted' = accepted \cup {token}

\* The token in memory, or that of the file; an empty file is made anew.
Read(h, p) ==
  /\ request[h] = Served /\ backend[p].at = "serving"
  /\ \/ /\ backend[p].cache # None \/ bearer \notin {None, Torn}
        /\ Holds(h, p, IF backend[p].cache # None THEN backend[p].cache ELSE bearer)
        /\ UNCHANGED <<bearers, doubled>>
     \/ /\ backend[p].cache = None /\ bearer \in {None, Torn}
        /\ bearers < MaxToken /\ bearers' = bearers + 1
        /\ request' = [request EXCEPT ![h] = [of |-> p, at |-> "open", new |-> bearers + 1]]
        /\ doubled' = (doubled \/ \E other \in Request : request[other] # Served)
        /\ UNCHANGED <<backend, accepted>>
  /\ UNCHANGED <<cert, key, bearer, pairs, ended, pinned, torn, raced>>

OpenToken(h) ==
  /\ request[h].at = "open" /\ bearer' = Torn
  /\ request' = [request EXCEPT ![h].at = "write"]
  /\ UNCHANGED <<cert, key, backend, pairs, bearers, ended, pinned, accepted, torn, raced, doubled>>

WriteToken(h) ==
  /\ request[h].at = "write" /\ bearer' = request[h].new
  /\ Holds(h, request[h].of, request[h].new)
  /\ UNCHANGED <<cert, key, pairs, bearers, ended, pinned, torn, raced, doubled>>

\* The disk refuses: the token lives as long as the process.
NotWritten(h) ==
  /\ request[h].at \in {"open", "write"} /\ doubled' = TRUE
  /\ Holds(h, request[h].of, request[h].new)
  /\ UNCHANGED <<cert, key, bearer, pairs, bearers, ended, pinned, torn, raced>>

Next ==
  \/ \E p \in Backend : Start(p) \/ Make(p) \/ Load(p) \/ Announce(p) \/ OfferPairing(p) \/ Dies(p)
  \/ \E h \in Request : OpenToken(h) \/ WriteToken(h) \/ NotWritten(h) \/ \E p \in Backend : Read(h, p)

Spec == Init /\ [][Next]_identityVars

-----------------------------------------------------------------------------
Pair == {None, Torn} \cup 1..MaxPair
Bearer == {None, Torn} \cup 1..MaxToken

TypeOK ==
  /\ cert \in Pair /\ key \in Pair /\ bearer \in Bearer
  /\ backend \in [Backend -> [at : {"off", "load", "loaded", "serving"} \cup Making,
                              pair : Pair \ {Torn}, cache : Bearer \ {Torn}]]
  /\ request \in [Request -> [of : Backend \cup {None}, at : {"none", "open", "write"}, new : Bearer \ {Torn}]]
  /\ pairs \in 0..MaxPair /\ bearers \in 0..MaxToken /\ ended \in 0..MaxDeath
  /\ pinned \subseteq 1..MaxPair /\ accepted \subseteq 1..MaxToken
  /\ {torn, raced, doubled} \subseteq BOOLEAN

\* tls.py: making the certificate again "would invalidate the fingerprint pinned by all the
\* paired devices", and making the token again would unpair them.  Unless two first starts
\* overlap, what was pinned is what every later start serves, and a home never has two files
\* that no start can load, but by a death inside the write of the certificate.  Unless two
\* first requests overlap, or the disk refuses, one token opens the backend for good.
IdentityLasts ==
  /\ ~raced => /\ \A f \in pinned : cert = f /\ key = f
               /\ ~torn /\ (\A p \in Backend : backend[p].at \notin Making) => Loadable \/ cert = None \/ key = None
  /\ ~doubled => /\ \A t \in accepted : bearer = t
                 /\ \A p \in Backend : backend[p].cache \in {None, bearer}
=============================================================================
