---------------------------- MODULE UdpTruncate ----------------------------
(***************************************************************************)
(* Fitting a response into the client's UDP payload limit (send.rs).       *)
(*                                                                         *)
(* A wire is [fixed, answers, authority, additional, tc, clipped]: the     *)
(* size of header, question and OPT, the sizes of the answer records in    *)
(* order, the sizes of the two other sections, the TC bit, and whether raw *)
(* octets were cut off.                                                    *)
(***************************************************************************)
EXTENDS Naturals, Sequences, SequencesExt

WireSize(w) ==
    w.fixed + FoldLeft(LAMBDA x, y : x + y, 0, w.answers) + w.authority + w.additional

WithoutAdditional(w) == [w EXCEPT !.additional = 0]

\* Authority is required content only when there is no answer.
WithoutAuthority(w) ==
    [w EXCEPT !.additional = 0, !.authority = 0,
              !.tc = @ \/ (w.authority > 0 /\ w.answers = <<>>)]

AnswerPrefix(w, n) ==
    [w EXCEPT !.additional = 0, !.authority = 0, !.tc = TRUE,
              !.answers = SubSeq(@, 1, n)]

\* A plausible slip: dropped answer records are not flagged.
TruncateUdp_NoTc(w, limit) ==
    LET fits == {n \in 0 .. Len(w.answers) : WireSize(AnswerPrefix(w, n)) <= limit}
    IN CASE WireSize(w) <= limit -> w
         [] WireSize(w) > limit /\ fits # {} ->
              [AnswerPrefix(w, CHOOSE n \in fits : \A m \in fits : m <= n) EXCEPT !.tc = w.tc]
         [] OTHER -> [w EXCEPT !.clipped = TRUE]

\* The first of: the wire, the wire without additional, without authority,
\* the longest prefix of its answers with TC set, and a clipped buffer.
TruncateUdp(w, limit) ==
    LET fits == {n \in 0 .. Len(w.answers) : WireSize(AnswerPrefix(w, n)) <= limit}
    IN CASE WireSize(w) <= limit -> w
         [] WireSize(w) > limit /\ WireSize(WithoutAdditional(w)) <= limit -> WithoutAdditional(w)
         [] WireSize(WithoutAdditional(w)) > limit /\ WireSize(WithoutAuthority(w)) <= limit ->
              WithoutAuthority(w)
         [] WireSize(WithoutAuthority(w)) > limit /\ fits # {} ->
              AnswerPrefix(w, CHOOSE n \in fits : \A m \in fits : m <= n)
         [] OTHER -> [w EXCEPT !.answers = <<>>, !.authority = 0, !.additional = 0,
                               !.tc = TRUE, !.clipped = TRUE]
=============================================================================
