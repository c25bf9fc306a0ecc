------------------------------ MODULE WtErrors ------------------------------
(***************************************************************************)
(* WebTransport application error codes and the HTTP/3 error codes they    *)
(* travel as (webtransport/src/error.rs).  HTTP/3 reserves one code in     *)
(* every 31 (0x1f * N + 0x21); the mapping steps over those.               *)
(***************************************************************************)
EXTENDS Integers

CONSTANTS
  WT_APP_ERROR_FIRST,   \* 0x52e4a40fa8db in the program
  U32_MAX               \* 2^32 - 1

\* The first 30 codes of the range are not reserved, the next one is.
ASSUME ErrorRangeAssumption ==
  /\ WT_APP_ERROR_FIRST \in Nat /\ WT_APP_ERROR_FIRST > 33
  /\ WT_APP_ERROR_FIRST % 31 = 3
  /\ U32_MAX \in Nat

\* Mutant: the reserved codes are counted in the wrong base.
ToHttp3Off(n) == WT_APP_ERROR_FIRST + n + n \div 31

webtransport_to_http3_error(n) == WT_APP_ERROR_FIRST + n + n \div 30

\* 0x52e5ac983162: the code of the greatest application error.
WT_APP_ERROR_LAST == WT_APP_ERROR_FIRST + U32_MAX + U32_MAX \div 30

Reserved(h) == (h - 33) % 31 = 0

\* The application error code of `h', as a set of one or no element.
http3_to_webtransport_error(h) ==
  LET shifted == h - WT_APP_ERROR_FIRST
      wt == shifted - shifted \div 31
  IN IF h \notin WT_APP_ERROR_FIRST .. WT_APP_ERROR_LAST \/ Reserved(h) \/ wt > U32_MAX
     THEN {} ELSE {wt}

=============================================================================
