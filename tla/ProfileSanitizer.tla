---------------------------- MODULE ProfileSanitizer ----------------------------
(***************************************************************************)
(* The redaction of what is sent to a provider.  A secret is an opening    *)
(* word followed by its body: it is recognised by the rules only when all  *)
(* of it is there.  One rule stands for the family of _VALUE_RULES; the    *)
(* extremes of a field are texts like its examples.                        *)
(***************************************************************************)
EXTENDS JsonPaths

CONSTANTS Secret,             \* the words of a secret, in order
          MaxValueLength,     \* DEFAULT_MAX_VALUE_LENGTH, in words, with the marker
          MaxListItems,       \* DEFAULT_MAX_LIST_ITEMS
          MaxRecords,         \* DEFAULT_MAX_RECORDS
          MaxDepth            \* _MAX_DEPTH

\* What follows the opening word of a secret
Body == Range(Tail(Secret))

\* The words that the sanitizer writes
Markers == {"[REDACTED]", "[REDACTED_TOO_DEEP]", "[truncated]", "#", "|"}

ASSUME SanitizerAssumption ==
    /\ Secret \in Seq(Range(Secret)) /\ Secret # <<>> /\ Head(Secret) \notin Body
    /\ Range(Secret) \cap Markers = {}
    /\ {MaxValueLength, MaxListItems} \subseteq Nat \ {0}
    /\ {MaxRecords, MaxDepth} \subseteq Nat

\* The words of a body that a text has are those of whole secrets
Whole(text) ==
    /\ text \in Seq(Range(text))
    /\ \A i \in 1..Len(text) : text[i] \in Body =>
          \E j \in 1..i : StartsAt(text, j, Secret) /\ i < j + Len(Secret)

\* _apply, over the words of a text
Redacted(text) ==
    LET redact[i \in 1..Len(text) + 1] ==
            IF i > Len(text) THEN <<>>
            ELSE IF StartsAt(text, i, Secret) THEN <<"[REDACTED]">> \o redact[i + Len(Secret)]
            ELSE <<text[i]>> \o redact[i + 1]
    IN redact[1]

Truncated(text) ==
    IF Len(text) <= MaxValueLength THEN text
    ELSE IF MaxValueLength <= 1 THEN SubSeq(text, 1, MaxValueLength)
    ELSE Append(SubSeq(text, 1, MaxValueLength - 1), "[truncated]")

\* Mutant: the value is bounded first.
SanitizeValueShort(text) == Redacted(Truncated(text))

SanitizeValue(text) == Truncated(Redacted(text))

\* The n-th key of a name; a number is a row of strokes
Numbered(key, n) == key \o <<"#">> \o [i \in 1..n |-> "|"]

\* A key that redaction made equal to another one is numbered
FreeKey(key, taken) ==
    IF key \notin taken THEN key
    ELSE Numbered(key, CHOOSE n \in 2..Cardinality(taken) + 2 :
                          /\ Numbered(key, n) \notin taken
                          /\ \A m \in 2..n - 1 : Numbered(key, m) \in taken)

\* The members of an object, under keys that stay apart
SanitizeMembers(members, clean) ==
    LET names == SetToSeq(DOMAIN members)
        after[n \in 0..Len(names)] ==
            IF n = 0 THEN <<>>
            ELSE LET key == FreeKey(Redacted(names[n]), DOMAIN after[n - 1]) IN
                 [k \in DOMAIN after[n - 1] \cup {key} |->
                    IF k = key THEN clean[members[names[n]]] ELSE after[n - 1][k]]
    IN after[Len(names)]

SanitizeItems(items, clean) ==
    [i \in 1..(IF Len(items) < MaxListItems THEN Len(items) ELSE MaxListItems) |-> clean[items[i]]]

\* _sanitize, with so many levels left, below which nothing is sent
SanitizeLevel(left, value, clean) ==
    CASE left = 0 -> <<"text", <<"[REDACTED_TOO_DEEP]">>>>
      [] left > 0 /\ value[1] = "object" -> <<"object", SanitizeMembers(value[2], clean)>>
      [] left > 0 /\ value[1] = "list" -> <<"list", SanitizeItems(value[2], clean)>>
      [] left > 0 /\ value[1] = "text" -> <<"text", SanitizeValue(value[2])>>
      [] OTHER -> value

\* clean[left] is what becomes of every value there
Sanitize(value) ==
    LET clean[left \in 0..MaxDepth + 1] == [v \in Values |-> SanitizeLevel(left, v, clean[left - 1])]
    IN clean[MaxDepth + 1][value]

SanitizeSamples(records) ==
    [i \in 1..(IF Len(records) < MaxRecords THEN Len(records) ELSE MaxRecords) |->
        Sanitize(records[i])]

\* ProfileExampleSanitizer: the path of a field is left alone
SanitizeField(field) ==
    [path |-> field.path, examples |-> {SanitizeValue(text) : text \in field.examples}]
================================================================================
