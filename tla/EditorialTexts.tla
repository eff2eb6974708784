--------------------------- MODULE EditorialTexts ---------------------------
(***************************************************************************)
(* What the services for posts and for contacts have in common beside the  *)
(* machine of CmsReads: texts in two languages, and English entries that   *)
(* are laid over the German ones by their slugs.                           *)
(***************************************************************************)
EXTENDS CmsReads, Integers

CONSTANTS
    German, English,  \* texts
    Blank             \* no text, in an entry that there is

Text == German \cup English \cup {Blank, None}

ASSUME TextsAssumption ==
    /\ German \cap English = {} /\ Blank \notin German \cup English
    /\ None # {} /\ None \notin German \cup English \cup {Blank} \cup Int

Published(docs) == {s \in DOMAIN docs : docs[s] # None}
Localised(k) == k.locale # "de"

EntryOf(entries, s) ==
    IF \E x \in entries : x.slug = s THEN CHOOSE x \in entries : x.slug = s ELSE None
Overlay(k, second, raw) ==
    IF Localised(k) /\ second # None THEN EntryOf(second, raw.slug) ELSE None
=============================================================================
