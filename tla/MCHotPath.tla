----------------------------- MODULE MCHotPath -----------------------------
(* Instances of HotPath for TLC: a start-up market and one to come.        *)
EXTENDS HotPath

CONSTANTS y0, n0, y1, n1

OneStart == {<<y0, n0>>}
OneNew   == {<<y1, n1>>}

(* One entry of a price_change: token, price, side.                        *)
ChangeEntry(t, p, b) == <<[asset |-> t], [price |-> p], [bid |-> b]>>

(* A change of either new token, one that lists both with a side between,  *)
(* and one of the start-up market's tokens at once.                        *)
SomeMessages ==
    {ChangeEntry(y1, p, TRUE) : p \in HotPrice}
        \cup {ChangeEntry(n1, 450, TRUE),
              ChangeEntry(y1, 450, TRUE) \o ChangeEntry(n1, 450, FALSE),
              ChangeEntry(y0, 450, FALSE) \o ChangeEntry(n0, 450, FALSE)}
=============================================================================
