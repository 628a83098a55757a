-------------------------- MODULE MCOutboundActions --------------------------
(* Instances of OutboundActions for TLC.                                   *)
EXTENDS OutboundActions, TLC

CONSTANTS t1, t2, t3, p, l

\* Three texts to one contact.
MCTexts == {t1, t2, t3}
\* A text, a photo request and the quote of a lead (a quote without one takes the
\* steps of a photo request, and QuoteSent).
MCMixed == {t1, p, l}
MCKind == [r \in Requests |-> CASE r = p -> "photo"
                                  [] r = l -> "leadQuote" [] OTHER -> "text"]

TextSymmetry == Permutations(MCTexts)
=============================================================================
