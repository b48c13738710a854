------------------------------- MODULE MCArith -------------------------------
(* Four integer kinds, all operands, on bytes of three bits. *)
EXTENDS CovaArithLaws

MCLawKinds == {"Byte", "Int8", "Int16", "Uint16"}
MCWiderKind == [k \in MCLawKinds |->
                  CASE k = "Byte" -> "Uint16" [] k = "Int8" -> "Int16"
                    [] k = "Int16" -> "Int32" [] k = "Uint16" -> "Uint32"]
=============================================================================
