---------------------------- MODULE MCDHCPLeases ----------------------------
(* Small instances of DHCPLeases for TLC: pool addresses are 0 and 1, and  *)
(* 2 lies just outside the dynamic range.                                  *)
EXTENDS DHCPLeases, TLC

CONSTANT c1

Cfg(f) == [c \in Clients |-> IF c \in DOMAIN f THEN f[c] ELSE None]
NoStatics == {Cfg(<<>>)}
OutsideStatic == {Cfg(c1 :> 2)}
=============================================================================
