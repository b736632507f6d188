--------------------------- MODULE MCSecureChannel ---------------------------
(* SecureChannel for TLC: three files, two of them with the same last part. *)
EXTENDS SecureChannel

MCPath == {"a/x", "b/x", "y"}
MCBaseOf == [p \in MCPath |-> IF p = "y" THEN "y" ELSE "x"]
MCFileLen == [p \in MCPath |-> IF p = "y" THEN 0 ELSE 2]
==============================================================================
