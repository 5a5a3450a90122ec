---------------------------- MODULE MCEntityMerge ----------------------------
(* Instances of EntityMerge for TLC: three entities that a chain of merge    *)
(* proposals relates.                                                        *)
EXTENDS EntityMerge, TLC

CONSTANTS e1, e2, e3, f1, l1, n1, n2, p12, p23, c1, h1, h2

ThreeEntities == {e1, e2, e3}
OneFact == {f1}
OneLink == {l1}
TwoEntries == {n1, n2}
OneCapture == {c1}
SourceOf == [x \in {f1, l1, n1, n2} |-> c1]
TwoProposals == {p12, p23}
SidesOf == [p \in TwoProposals |-> IF p = p12 THEN {e1, e2} ELSE {e2, e3}]
TwoHandlers == {h1, h2}

(* The chain of proposals may be read from either end. *)
Mirror == [x \in {e1, e3, p12, p23} |->
            CASE x = e1 -> e3 [] x = e3 -> e1 [] x = p12 -> p23 [] x = p23 -> p12]
AnyName == Permutations(TwoHandlers) \cup Permutations(TwoEntries) \cup {Mirror}
=============================================================================
