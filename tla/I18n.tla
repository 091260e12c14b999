--------------------------------- MODULE I18n ---------------------------------
(***************************************************************************)
(* Translations (I18n.js) and the bounded cache of finished texts that     *)
(* stands before them (LRUCache of Performance.js): plural forms, the      *)
(* fallback language, defaults and interpolation.                          *)
(*                                                                         *)
(* A wording is the translation as it was written; of its placeholders it  *)
(* matters whether it shows the count and whether it goes through a        *)
(* formatter of the application.  A text is what becomes of a wording.     *)
(***************************************************************************)
EXTENDS LRUCache

CONSTANTS
  Languages, FallbackLanguage,
  Wordings, Counting, Formatting,  \* all wordings; those with the count; with a formatter
  Counts,     \* counts asked with
  Defaults,   \* defaultValues asked with
  CacheSize,  \* cacheSize
  NoText      \* undefined, null

ASSUME I18nAssumption ==
  /\ FallbackLanguage \in Languages /\ Counting \cup Formatting \subseteq Wordings
  /\ Counts \subseteq Nat /\ CacheSize \in Nat \ {0} /\ NoText \notin Wordings
  /\ NoText \notin Languages /\ NoText \notin Counts

VARIABLES
  translations,  \* of a language and a plural form (or "base"), for one key
  language,      \* defaultLanguage
  formatter,     \* which of two formatters has the name the wordings use
  texts          \* the cache, from the least recently used
i18nVars == <<translations, language, formatter, texts>>

PluralForm(count) ==
  CASE count = 0 -> "zero" [] count = 1 -> "one" [] count = 2 -> "two"
    [] count \in 3 .. 10 -> "few" [] count \in 11 .. 99 -> "many" [] OTHER -> "other"
Forms == {"base"} \cup {PluralForm(n) : n \in Counts}
Untranslated == [l \in Languages |-> [f \in Forms |-> NoText]]

-----------------------------------------------------------------------------
(* t(key, options) of a missing cache entry                                *)

\* An ask leaves out its language or its count, or says them.
I18nAsks == [language : Languages \cup {NoText}, count : Counts \cup {NoText}, default : Defaults]
LanguageOf(ask) == IF ask.language = NoText THEN language ELSE ask.language

\* _getTranslation.
Translation(l, form) ==
  IF translations[l][form] # NoText THEN translations[l][form]
  ELSE translations[FallbackLanguage][form]

\* The plural form, if there is one, in whichever of the two languages.
TranslationKey(ask) ==
  IF ask.count # NoText /\ Translation(LanguageOf(ask), PluralForm(ask.count)) # NoText
  THEN PluralForm(ask.count) ELSE "base"
Found(ask) == Translation(LanguageOf(ask), TranslationKey(ask))

Interpolated(wording, count, by) ==
  [wording |-> wording, count |-> IF wording \in Counting THEN count ELSE NoText,
   by |-> IF wording \in Formatting THEN by ELSE 0]
Text(ask, by) ==
  Interpolated(IF Found(ask) = NoText THEN ask.default ELSE Found(ask), ask.count, by)

-----------------------------------------------------------------------------
(* The cache                                                               *)

CacheKeyAnyCount(ask) == <<LanguageOf(ask)>>  \* mutant: the count is left out
CacheKey(ask) == <<LanguageOf(ask), ask.count>>
Finished(ask) == [key |-> CacheKey(ask), text |-> Text(ask, formatter)]

Translate(ask) ==
  /\ texts' = IF At(texts, CacheKey(ask)) # {} THEN MovedToEnd(texts, CacheKey(ask))
              ELSE WithEntry(Room(texts, CacheSize), Finished(ask))
  /\ UNCHANGED <<translations, language, formatter>>

\* New wordings of a language join and replace the old ones.
AddTranslations(l, new) ==
  /\ translations' = [translations EXCEPT
       ![l] = [form \in Forms |-> IF form \in DOMAIN new THEN new[form] ELSE @[form]]]
  /\ texts' = <<>> /\ UNCHANGED <<language, formatter>>

ClearTranslations ==
  /\ translations' = Untranslated /\ texts' = <<>> /\ UNCHANGED <<language, formatter>>

SetDefaultLanguage(l) == language' = l /\ UNCHANGED <<translations, formatter, texts>>
AddFormatter == formatter' = 3 - formatter /\ UNCHANGED <<translations, language, texts>>

I18nInit ==
  /\ translations = Untranslated /\ language \in Languages
  /\ formatter = 1 /\ texts = <<>>

I18nNext ==
  \/ \E ask \in I18nAsks : Translate(ask)
  \/ \E l \in Languages, f \in Forms, w \in Wordings : AddTranslations(l, [g \in {f} |-> w])
  \/ ClearTranslations \/ AddFormatter
  \/ \E l \in Languages : SetDefaultLanguage(l)

I18nSpec == I18nInit /\ [][I18nNext]_i18nVars

-----------------------------------------------------------------------------
(* Properties                                                              *)

\* A text from the cache is the one that the translations of now give, in
\* the language and for the count asked with: "Build cache key from all
\* options that affect the result" (I18n.js:129).  Two things the cache does
\* not notice: a formatter that was replaced, and, while there is no
\* translation, another defaultValue.
TextsAreCurrent ==
  /\ Len(texts) <= CacheSize
  /\ \A ask \in I18nAsks, i \in DOMAIN texts :
       texts[i].key = CacheKey(ask) =>
         \E by \in {1, 2}, d \in Defaults :
           texts[i].text = Text([ask EXCEPT !.default = d], by)
=============================================================================
