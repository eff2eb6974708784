---------------------------- MODULE MealSemantics ----------------------------
(***************************************************************************)
(* What a dish contains, from the codes its entry carries (classifyMeal):  *)
(* a code is looked up in the table of codes and, if that does not know    *)
(* it, by the label the dictionary has for it.  A code is an allergen or a *)
(* trait, never both, and a subtype of an allergen brings its parent along.*)
(***************************************************************************)
CONSTANTS
    Codes, Labels,            \* codes of the source, and their labels
    Allergens, Traits,        \* the published keys
    CodeToAllergen, CodeToTrait, LabelToAllergen, LabelToTrait,
    Parent,                   \* ALLERGEN_PARENT
    Sprint,                   \* the trait that comes from is_sprint
    None

ASSUME TablesAssumption ==
    /\ None \notin Labels \cup Allergens \cup Traits
    /\ CodeToAllergen \in [Codes -> Allergens \cup {None}]
    /\ CodeToTrait \in [Codes -> Traits \cup {None}]
    /\ LabelToAllergen \in [Labels -> Allergens \cup {None}]
    /\ LabelToTrait \in [Labels -> Traits \cup {None}]
    /\ Parent \in [Allergens -> Allergens \cup {None}]
    /\ \A a \in Allergens : Parent[a] # None => Parent[Parent[a]] = None
    /\ Sprint \in Traits

(* lookupByLabel                                                           *)
ByLabel(table, c, labels) == IF labels[c] = None THEN None ELSE table[labels[c]]

AllergenOfCode(c, labels) == CodeToAllergen[c]              \* mutant: codes only
AllergenOf(c, labels) == IF CodeToAllergen[c] # None THEN CodeToAllergen[c]
                         ELSE ByLabel(LabelToAllergen, c, labels)
TraitOf(c, labels) == IF AllergenOf(c, labels) # None THEN None
                      ELSE IF CodeToTrait[c] # None THEN CodeToTrait[c]
                      ELSE ByLabel(LabelToTrait, c, labels)

Classify(codes, sprint, labels) ==
    LET own == {AllergenOf(c, labels) : c \in codes} \ {None}
    IN  [allergens |-> own \cup ({Parent[a] : a \in own} \ {None}),
         traits |-> ({TraitOf(c, labels) : c \in codes} \ {None})
                        \cup (IF sprint THEN {Sprint} ELSE {})]
=============================================================================
