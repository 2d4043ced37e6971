---------------------------- MODULE MCFormalSums ----------------------------
(* The kinds of weights, and the terms their weights are made of. *)
EXTENDS FormalSums

NumberKinds == {Kind("number", "none", b) :
                  b \in {"boolean", "trivial", "integer", "tropical", "log", "probability"}}
StringKinds == {Kind("string", side, "none") : side \in {"left", "right", "restrict"}}
GallicKinds == {Kind("gallic", side, b) :
                  side \in {"left", "right", "restrict"}, b \in {"tropical", "log"}}
               \cup {Kind("gallic", "min", "tropical")}
UnionKinds == {Kind("union", "none", b) : b \in {"tropical", "log"}}
AllKinds == NumberKinds \cup StringKinds \cup GallicKinds \cup UnionKinds

(* A small number, and one that is not a multiple of Delta. *)
Light(b) ==
  CASE b \in {"boolean", "none"} -> TRUE [] b = "trivial" -> 0 [] b = "integer" -> 1
    [] b = "tropical" -> 0 [] OTHER -> <<1, 2>>
Heavy(b) ==
  CASE b \in {"boolean", "none"} -> TRUE [] b = "trivial" -> 0 [] b = "integer" -> 3
    [] b = "tropical" -> 3 [] OTHER -> <<2, 1>>
SomeTerms(k) ==
  IF k.shape = "number" THEN {<<<<>>, Light(k.of)>>, <<<<>>, Heavy(k.of)>>}
  ELSE {<<<<>>, Heavy(k.of)>>, <<<<1>>, Light(k.of)>>, <<<<2, 1>>, Heavy(k.of)>>, <<<<1, 2>>, Light(k.of)>>}
=============================================================================
