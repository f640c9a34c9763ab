----------------------------- MODULE MCRecipes -----------------------------
(* The instance of Recipes for TLC: the elements of each set are alike. *)
EXTENDS Recipes, TLC

Symmetry == Permutations(Recipe) \cup Permutations(Handler)
              \cup Permutations(Meta) \cup Permutations(Ings)

=============================================================================
