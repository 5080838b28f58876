------------------------------ MODULE MCFraming ------------------------------
EXTENDS Framing

(***************************************************************************)
(* Payloads shorter than, as long as and longer than the octet that is     *)
(* read ahead, with end octets and zeros in them.                          *)
(***************************************************************************)
MCPayloads == {<<>>, <<FRAME_END>>, <<0, FRAME_END>>}

=============================================================================
