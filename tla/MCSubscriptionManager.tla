------------------------ MODULE MCSubscriptionManager ------------------------
(* Small instances of SubscriptionManager for TLC.                         *)
EXTENDS SubscriptionManager, TLC

CONSTANTS w1, w2, name, size, url

MCAttrs == {name, size}
MCOneAttr == {name}
MCMetaAttrs == {url}

(* /a/1, /b/1, and /a_1, whose subscriptions are in the list of /a/1.      *)
MCIris == {<<"/", "a", "/", "1">>, <<"/", "b", "/", "1">>,
           <<"/", "a", "_", "1">>}
MCOneIri == {<<"/", "a", "/", "1">>}

(* The selection with the Mercure URL and the one without share an id.     *)
MCSelections == {{name}, {name, url}, {name, size}}
MCOneSelection == {{name, url}}
(* Two ids: the entry of one does not serve the other.                     *)
MCTwoIds == {{name, url}, {size, url}}

Symmetry == Permutations(Workers)
=============================================================================
