----------------------------- MODULE InsnStream -----------------------------
(***************************************************************************)
(* What a decoder promises a caller that gives it a stream byte by byte:   *)
(*                                                                         *)
(*   - it asks for more bytes until the instruction is complete or wrong;  *)
(*   - an instruction ends at the byte that completed it, so no byte of    *)
(*     the next one is read and none of its own is left;                   *)
(*   - an error is at a byte that the decoder was given;                   *)
(*   - bytes that follow never change the verdict.                         *)
(*                                                                         *)
(* The processor core rests on this: it decodes whatever window of the     *)
(* instruction memory lets it fetch, 15 bytes or, where a mapping ends,    *)
(* fewer, and the window must not matter as long as the instruction fits.  *)
(***************************************************************************)
EXTENDS Naturals

VARIABLES
    seen,           \* how many bytes were given
    verdict         \* Open, or the record of an instruction or an error

Open == [kind |-> "kTruncated"]

\* A verdict that n bytes allow, when n - 1 allowed none.
Fits(v, n) ==
    IF v.kind = "kDecoded" THEN v.length = n ELSE v.offset < n

Init == seen = 0 /\ verdict = Open

Decide ==
    /\ verdict = Open
    /\ verdict' = Open \/ (verdict'.kind # "kTruncated" /\ Fits(verdict', seen'))

Keep == verdict # Open /\ verdict' = verdict

Next == seen' = seen + 1 /\ (Decide \/ Keep)

Spec == Init /\ [][Next]_<<seen, verdict>>
=============================================================================
