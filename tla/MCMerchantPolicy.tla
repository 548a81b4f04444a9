-------------------------- MODULE MCMerchantPolicy --------------------------
(* Instances of MerchantPolicy for TLC. *)
EXTENDS MerchantPolicy, TLC

CONSTANTS c1, c2, w1, w2

Permuted == Permutations({c1, c2}) \cup Permutations({w1, w2})

(* The default limits, a small amount limit, no automatic links, and a      *)
(* policy beyond the bounds of the form.                                    *)
MCSmall   == [DefaultPolicy EXCEPT !.max_auto_action_amount_minor = 100]
MCNoLinks == [DefaultPolicy EXCEPT !.max_payment_links_per_case = 0]
MCBeyond  == [DefaultPolicy EXCEPT !.max_payment_links_per_case = 6]
MCUpdates == {DefaultPolicy, MCSmall, MCNoLinks, MCBeyond}
MCUpdatesOne == {MCSmall}
=============================================================================
