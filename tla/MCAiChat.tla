------------------------------- MODULE MCAiChat -----------------------------
(* AiChat with one tool of high impact and one other. *)
EXTENDS AiChat

CONSTANTS s1, s2, create, delete

MCOffers == {<<create>>, <<create, delete>>}
=============================================================================
