------------------------------ MODULE MCUserCopy ------------------------------
(* Pages of three bytes; structures of two and three bytes.                  *)
EXTENDS UserCopy

MCByte == 0..2
MCReadData == {<<1, 2, 2, 1>>, <<0>>}
MCWriteLens == {2, 5}
MCTimeVal == <<2, 1>>
MCStat == <<1, 2, 1>>

\* Structures that lie in one page.
TimeInPage == {va \in Addr : PageOffset(va) < 2}
StatInPage == {va \in Addr : PageOffset(va) = 0}
=============================================================================
