--------------------------- MODULE AnswerPositions ---------------------------
(***************************************************************************)
(* structure/permutation.py and apply_choice_permutation_to_question of    *)
(* reading/contracts.py: the options of a question are dealt to the        *)
(* letters anew and its key goes with them.                                *)
(***************************************************************************)
CONSTANTS Letters, Texts

Questions == [options : [Letters -> Texts], key : Letters]

\* canonical_to_original: the letter each new letter takes its option from.
Deals == {deal \in [Letters -> Letters] :
            \A l, m \in Letters : deal[l] = deal[m] => l = m}

Onto(deal) == \A l \in Letters : \E m \in Letters : deal[m] = l

\* original_to_canonical, which tells where an option has gone.
NewLetter(deal, l) == CHOOSE m \in Letters : deal[m] = l

Permuted(question, deal) ==
  [options |-> [l \in Letters |-> question.options[deal[l]]],
   key |-> NewLetter(deal, question.key)]

\* Every question has its own deal.
PermutedSet(set, deals) == [i \in DOMAIN set |-> Permuted(set[i], deals[i])]
=============================================================================
