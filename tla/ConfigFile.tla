------------------------------ MODULE ConfigFile ------------------------------
(* A facility file as its lines, and what opti_instance.c and facility.c do  *)
(* with them: look a key up, merge the updates of a POST into the lines, see *)
(* whether the optimizer can use the file.                                   *)
(*                                                                           *)
(* A line has a key, a value and, but for the last one, a newline; a line    *)
(* without '=' or with a key nobody asks for has the key Other. Carriage     *)
(* returns are left out: every reader drops the one before a newline.        *)
EXTENDS Integers, Sequences, FiniteSets

CONSTANTS
  Editable,    \* the keys of osi_config_updates, in the order of the table
  Obligatory,  \* the keys a facility must have
  Zone,        \* the one of them that has an older name,
  Legacy,      \* price_class, which the optimizer takes in its place
  Other,       \* the key of every other line
  Values,      \* values a line may have
  Empty,       \* no value
  Garbled,     \* a value cut short, or with another line glued to it
  TooLong      \* a value of 128 characters or more

Keys == {Editable[i] : i \in DOMAIN Editable}

ASSUME FileConstants ==
  /\ Editable \in Seq(Keys)
  /\ "name" \in Obligatory /\ Obligatory \subseteq Keys
  /\ Zone \in Obligatory \ {"name"} /\ Legacy \notin Keys
  /\ Other \notin Keys \cup {Legacy}
  /\ Empty \notin Values /\ Garbled \notin Values /\ Garbled # Empty
  /\ TooLong \notin Values \cup {Empty, Garbled}

FileKeys == Keys \cup {Legacy, Other}

Line == [key : FileKeys, value : Values \cup {Empty, Garbled}, newline : BOOLEAN]

\* Only the last line of a text may lack its newline.
Text == {text \in Seq(Line) : \A i \in DOMAIN text : text[i].newline \/ i = Len(text)}

First(hits) == CHOOSE i \in hits : \A j \in hits : i <= j

-----------------------------------------------------------------------------
(* Reading a file.                                                           *)

\* osi_copy_config_value: the first line of the key that has a value, for
\* "line_len <= key_len + 1" passes over one that has none.
Lookup(text, key) ==
  LET hits == {i \in DOMAIN text : text[i].key = key /\ text[i].value # Empty}
  IN  IF hits = {} THEN Empty ELSE text[First(hits)].value

HasLine(text, key) == \E i \in DOMAIN text : text[i].key = key

HasObligatory(text) ==
  \A key \in Obligatory :
    HasLine(text, key) \/ (key = Zone /\ HasLine(text, Legacy))

\* facility_parse_config: a facility needs a line for each obligatory key, be
\* it the older one of its zone, and a name that is not empty.
Usable(text) ==
  /\ HasObligatory(text)
  /\ Lookup(text, "name") # Empty

-----------------------------------------------------------------------------
(* Updates.                                                                  *)

\* osi_parse_config_updates: a body is its lines with a '=', and is refused
\* whole if one of them has an unknown key or a value that does not fit.
Parses(body) == \A i \in DOMAIN body : body[i].key \in Keys /\ body[i].value # TooLong

\* The table after a body was parsed: the last line of a key counts.
Updates(body) ==
  [key \in {body[i].key : i \in DOMAIN body} |->
     body[CHOOSE i \in DOMAIN body : body[i].key = key
            /\ \A j \in DOMAIN body : body[j].key = key => j <= i].value]

Set(key, updates) == [key |-> key, value |-> updates[key], newline |-> TRUE]

\* Mutant: an updated line is written without its newline.
RewrittenBare(text, updates) ==
  [i \in DOMAIN text |->
     IF text[i].key \in DOMAIN updates THEN [Set(text[i].key, updates) EXCEPT !.newline = FALSE]
     ELSE text[i]]

\* osi_merge_config_updates: every line of an updated key is written anew,
\* with a newline, ...
Rewritten(text, updates) ==
  [i \in DOMAIN text |->
     IF text[i].key \in DOMAIN updates THEN Set(text[i].key, updates) ELSE text[i]]

\* Mutant: one flag tells whether anything was written.
AppendedIfNone(text, updates) ==
  LET IsNew(key) == key \in DOMAIN updates
      new        == IF \E i \in DOMAIN text : text[i].key \in DOMAIN updates
                    THEN <<>> ELSE SelectSeq(Editable, IsNew)
  IN  [i \in DOMAIN new |-> Set(new[i], updates)]

\* ... and what was not written is appended, in the order of the table, ...
Appended(text, updates) ==
  LET new    == {n \in DOMAIN Editable : /\ Editable[n] \in DOMAIN updates
                                         /\ \A i \in DOMAIN text : text[i].key # Editable[n]}
      Nth(k) == CHOOSE n \in new : Cardinality({m \in new : m < n}) = k - 1
  IN  [k \in 1..Cardinality(new) |-> Set(Editable[Nth(k)], updates)]

\* ... to the last character: to a last line that has no newline.
Glues(text, more) ==
  /\ text # <<>> /\ more # <<>>
  /\ ~text[Len(text)].newline

Joined(text, more) ==
  IF Glues(text, more)
  THEN SubSeq(text, 1, Len(text) - 1)
         \o <<[key |-> text[Len(text)].key, value |-> Garbled, newline |-> more[1].newline]>>
         \o Tail(more)
  ELSE text \o more

\* Mutant: a line without a value is left out.
MergeValued(text, updates) ==
  LET HasValue(line) == line.value # Empty
  IN  Joined(SelectSeq(Rewritten(text, updates), HasValue), Appended(text, updates))

Merge(text, updates) == Joined(Rewritten(text, updates), Appended(text, updates))

-----------------------------------------------------------------------------
\* What a write that ends early leaves: whole lines, and a part of the next.
Truncations(text) ==
  LET Part(line) == {[line EXCEPT !.newline = FALSE],
                     [line EXCEPT !.newline = FALSE, !.value = Empty],
                     [line EXCEPT !.newline = FALSE, !.value = Garbled],
                     [key |-> Other, value |-> Garbled, newline |-> FALSE]}
  IN  {SubSeq(text, 1, n) : n \in 0..Len(text)} \cup
      UNION {{SubSeq(text, 1, n) \o <<line>> : line \in Part(text[n + 1])} : n \in 0..(Len(text) - 1)}
=============================================================================
