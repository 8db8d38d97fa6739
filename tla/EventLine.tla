------------------------------ MODULE EventLine ------------------------------
(***************************************************************************)
(* One record becomes one line (formatters.py, leef.py, cef_utils.py,      *)
(* qradar.py): which fields go where, which records are refused, and the   *)
(* escaping that lets a reader take the line apart again.                  *)
(*                                                                         *)
(* A text is a sequence of characters, of which those that some format     *)
(* treats specially have names and all others are letters; the names of    *)
(* fields are one letter each.  A value is what str() makes of it and its  *)
(* kind: "text", "number" (an epoch in ms), "far" (a number so large that  *)
(* datetime raises OverflowError), "items" (a list or dict) or "empty".    *)
(* Left out: the order of a line's fields, severities, QRadar's alert      *)
(* categories, and timestamps that are zero or not finite.                 *)
(***************************************************************************)
EXTENDS FieldMaps, Naturals, FiniteSets, SequencesExt

CONSTANTS
    Letters,   \* the characters no format treats specially, and the names of fields
    Formats,   \* the values of OUTPUT_FORMAT in this instance
    MaxLen,    \* MAX_FIELD_VALUE_LEN
    RecordsOf  \* the records of each stream in this instance

Kinds == {"text", "number", "far", "items", "empty"}

(* The characters that some format treats specially. *)
Special == {"bs", "eq", "pipe", "sp", "tab", "lf", "cr"}

Value == [kind : Kinds, text : Seq(Letters \cup Special)]

(* A dict of the service, whose names of fields are identifiers. *)
IsRecord(r) ==
    /\ IsFiniteSet(DOMAIN r)
    /\ DOMAIN r \subseteq Letters
    /\ \A k \in DOMAIN r : r[k] \in Value /\ (r[k].kind = "empty" <=> r[k].text = <<>>)

ASSUME EventLineAssumption ==
    /\ Letters \cap Special = {}
    /\ Formats \subseteq {"leef", "cef", "json", "qradar"}
    /\ MaxLen \in Nat
    /\ \A s \in Streams : \A r \in RecordsOf[s] : IsRecord(r)

VARIABLES
    format,   \* OUTPUT_FORMAT
    stream,
    record,   \* the record, a function from its fields to values
    outcome,  \* of format_record: none yet, a line, or an exception
    fields,   \* the line's fields: the record's field each is from and its text
    head,     \* the texts of the CEF header after the vendor
    line      \* the characters of the line, except for JSON

vars == <<format, stream, record, outcome, fields, head, line>>

Own == "the format"   \* where a field is from that the format itself adds

(* What the formats bring into a line: texts of their own, and keys. *)
Words == {"n", "r", "date", "[TRUNC]", "default", "product", "severity", "1.0", "PaloAlto", "CEF:0", "LEEF:1.0"}

KeysOf(s) ==
    {LeefMap[s][i][2] : i \in DOMAIN LeefMap[s]} \cup {CefMap[s][i][2] : i \in DOMAIN CefMap[s]}
        \cup {QradarChoices[s][i][1] : i \in DOMAIN QradarChoices[s]}

OwnKeys == {"cat", "stream", "start", "rt", "end", "qradarCategory", "_stream", "_ingested"}

Keys == OwnKeys \cup (UNION {KeysOf(s) : s \in Streams})

Chars == Letters \cup Special \cup Words \cup Streams \cup Keys

Text == Seq(Chars)

Field == [from : Letters \cup {Own}, text : Text, cut : BOOLEAN]

(* A line's fields are the record's or the format's own, and no field without a
   value is among them, "in any output format" (leef.py _has_value). *)
TypeOK ==
    /\ format \in Formats
    /\ stream \in Streams
    /\ IsRecord(record)
    /\ outcome \in {"none", "line", "refused"}
    /\ \A k \in DOMAIN fields :
          /\ k \in Letters \cup Keys
          /\ fields[k] \in Field
          /\ fields[k].from # Own => record[fields[k].from].kind # "empty"
    /\ head \in Seq(Text)
    /\ line \in Text

Init ==
    /\ format \in Formats
    /\ stream \in Streams
    /\ record \in RecordsOf[stream]
    /\ outcome = "none"
    /\ fields = <<>>
    /\ head = <<>>
    /\ line = <<>>

-----------------------------------------------------------------------------
(* Characters. *)

(* str.replace(c, by) *)
Replace(text, c, by) ==
    FlattenSeq([i \in DOMAIN text |-> IF text[i] = c THEN by ELSE <<text[i]>>])

Sanitise(text) ==
    [i \in DOMAIN text |-> IF text[i] \in {"tab", "lf", "cr", "pipe"} THEN "sp" ELSE text[i]]

CefEscapeHeader(text) ==
    Replace(Replace(text, "bs", <<"bs", "bs">>), "pipe", <<"bs", "pipe">>)

CefEscapeExtLate(text) ==                    \* mutant: the backslash last
    Replace(Replace(Replace(Replace(text,
        "eq", <<"bs", "eq">>), "lf", <<"bs", "n">>), "cr", <<"bs", "r">>), "bs", <<"bs", "bs">>)

CefEscapeExtLines(text) ==                   \* mutant: line feeds kept
    Replace(Replace(text, "bs", <<"bs", "bs">>), "eq", <<"bs", "eq">>)

CefEscapeExt(text) ==
    Replace(Replace(Replace(Replace(text,
        "bs", <<"bs", "bs">>), "eq", <<"bs", "eq">>), "lf", <<"bs", "n">>), "cr", <<"bs", "r">>)

Truncate(text) ==
    IF Len(text) > MaxLen THEN Append(SubSeq(text, 1, MaxLen), "[TRUNC]") ELSE text

(* A field's value as it stands in the line; lists and dicts are cut. *)
Encode(field) ==
    LET escaped == IF format = "leef" THEN Sanitise(field.text) ELSE CefEscapeExt(field.text)
    IN  IF field.cut THEN Truncate(escaped) ELSE escaped

Joined(texts, separator) == FlattenSeq([i \in DOMAIN texts |->
    IF i = 1 THEN texts[i] ELSE <<separator>> \o texts[i]])

(* The elements of a set in some order. *)
Listed(S) ==
    LET rest[n \in 0 .. Cardinality(S)] ==
            IF n = 0 THEN S ELSE rest[n - 1] \ {CHOOSE k \in rest[n - 1] : TRUE}
    IN  [n \in 1 .. Cardinality(S) |-> CHOOSE k \in rest[n - 1] : TRUE]

(* "key=value" of every field *)
Pairs(all) ==
    LET keys == Listed(DOMAIN all)
    IN  [n \in DOMAIN keys |-> <<keys[n], "eq">> \o Encode(all[keys[n]])]

-----------------------------------------------------------------------------
(* Fields. *)

ValuedAll == DOMAIN record                   \* mutant: "key in record" is enough

(* _has_value *)
Valued == {k \in DOMAIN record : record[k].kind # "empty"}

(* Two dicts in one; a key of both has the value of the first. *)
f ++ g == [k \in DOMAIN f \cup DOMAIN g |-> IF k \in DOMAIN f THEN f[k] ELSE g[k]]

As(k, text) == [from |-> k, text |-> text, cut |-> FALSE]

Raw(k) == As(k, record[k].text)

(* epoch_to_iso where it does not raise *)
Iso(k) == As(k, IF record[k].kind = "number" THEN <<"date">> ELSE Sanitise(record[k].text))

(* A field whose text is a date if it is one of the dates. *)
Shown(k, dates) == IF k \in dates THEN Iso(k) ELSE Raw(k)

(* The loop over a field map; of two fields with one key the later wins. *)
MappedFields(map, dates) ==
    LET used == {i \in DOMAIN map : map[i][1] \in Valued}
    IN  [key \in {map[i][2] : i \in used} |->
            Shown(map[Max({i \in used : map[i][2] = key})][1], dates)]

MapKeys(map) == {map[i][1] : i \in DOMAIN map}

(* The loop over the rest of the record. *)
CustomFields(keys, dates) ==
    [k \in keys |->
        IF record[k].kind = "items" THEN [from |-> k, text |-> record[k].text, cut |-> TRUE]
                                    ELSE Shown(k, dates)]

(* record.get(key, default) *)
Get(k, default) == IF k \in DOMAIN record THEN record[k].text ELSE default

LeefFields ==
    LET map   == LeefMap[stream]
        times == {map[i][1] : i \in {j \in DOMAIN map : map[j][2] \in {"devTime", "devTimeEnd"}}}
    IN  CustomFields(Valued \ MapKeys(map), EpochFields[stream])
            ++ MappedFields(map, times)
            ++ [k \in {"cat"} |-> As(Own, Get(map[1][1], <<"default">>))]

CefFields ==
    LET map == CefMap[stream]
    IN  CustomFields(Valued \ MapKeys(map), {}) ++ MappedFields(map, {})
            ++ [k \in {"stream"} |-> As(Own, <<stream>>)]

JsonFields ==
    LET times == EpochFields[stream] \cup PrimaryTimes[stream]
    IN  [k \in {"_stream", "_ingested"} |-> As(Own, <<k>>)]
            ++ [k \in Valued \cap times |-> Iso(k)]
            ++ CustomFields(Valued \ times, {})

(* _choose_first: the first of the keys that has a value. *)
HasFirst(keys) == \E i \in DOMAIN keys : keys[i] \in Valued
First(keys) == keys[CHOOSE i \in DOMAIN keys :
                   keys[i] \in Valued /\ \A j \in 1 .. (i - 1) : keys[j] \notin Valued]

ChosenFields(choices) ==
    LET has == {i \in DOMAIN choices : HasFirst(choices[i][2])}
    IN  [o \in {choices[i][1] : i \in has} |->
            Raw(First(choices[CHOOSE i \in has : choices[i][1] = o][2]))]

TimeFields(key, keys, dates) == [k \in IF HasFirst(keys) THEN {key} ELSE {} |-> Shown(First(keys), dates)]

QradarName ==
    IF HasFirst(EventName[stream]) THEN Raw(First(EventName[stream])) ELSE As(Own, <<"default">>)

QradarBase ==
    ChosenFields(QradarChoices[stream])
        ++ [k \in Identifiers \cap Valued |-> Raw(k)]
        ++ TimeFields("start", PrimaryTime[stream], Valued)
        ++ TimeFields("rt", PrimaryTime[stream], {})
        ++ TimeFields("end", EndTime[stream], {})
        ++ [k \in {"cat"} |-> QradarName]
        ++ [k \in {"stream", "qradarCategory"} |-> As(Own, <<k>>)]

QradarFieldsUsed ==                          \* mutant: used fields are not passed through
    QradarBase ++ CustomFields(Valued \ UNION ({ToSet(QradarChoices[stream][i][2]) :
                                                   i \in DOMAIN QradarChoices[stream]}), {})

(* What is not yet there under its own name is passed through. *)
QradarFields == QradarBase ++ CustomFields(Valued \ DOMAIN QradarBase, {})

-----------------------------------------------------------------------------
(* Exceptions, which leave format_record and make the poller skip the record. *)

Far(keys) == \E k \in keys \cap Valued : record[k].kind = "far"

NoNumber(keys, kinds) == HasFirst(keys) /\ record[First(keys)].kind \notin kinds

LeefTimes == EpochFields[stream] \cup
    {LeefMap[stream][i][1] : i \in {j \in DOMAIN LeefMap[stream] :
                                       LeefMap[stream][j][2] \in {"devTime", "devTimeEnd"}}}

(* epoch_to_iso lets an OverflowError out, to_qradar also what int() raises. *)
Raises ==
    CASE format = "leef"   -> Far(LeefTimes)
      [] format = "json"   -> Far(EpochFields[stream] \cup PrimaryTimes[stream])
      [] format = "qradar" -> NoNumber(PrimaryTime[stream], {"number"})
                              \/ NoNumber(EndTime[stream], {"number", "far"})
      [] OTHER             -> FALSE

-----------------------------------------------------------------------------
(* format_record *)

Refuse ==
    /\ outcome = "none"
    /\ Raises
    /\ outcome' = "refused"
    /\ UNCHANGED <<format, stream, record, fields, head, line>>

Formatting(f) == outcome = "none" /\ format = f /\ ~Raises /\ outcome' = "line"

ToLeef ==
    /\ Formatting("leef")
    /\ fields' = LeefFields
    /\ line' = <<"LEEF:1.0", "pipe", "PaloAlto", "pipe", "product", "pipe", "1.0", "pipe", stream, "pipe">>
                   \o Joined(Pairs(fields'), "pipe")
    /\ UNCHANGED <<format, stream, record, head>>

(* The header's five texts and the extension. *)
CefLine ==
    line' = <<"CEF:0", "pipe", "PaloAlto", "pipe">>
                \o FlattenSeq([i \in DOMAIN head' |-> Append(CefEscapeHeader(head'[i]), "pipe")])
                \o Joined(Pairs(fields'), "sp")

ToCef ==
    /\ Formatting("cef")
    /\ fields' = CefFields
    /\ head' = <<<<"product">>, <<"1.0">>, Get(CefHead[stream][1], <<>>),
                 Get(CefHead[stream][2], <<"default">>), <<"severity">>>>
    /\ CefLine
    /\ UNCHANGED <<format, stream, record>>

ToQradar ==
    /\ Formatting("qradar")
    /\ fields' = QradarFields
    /\ LET id == EventName[stream][Len(EventName[stream])]
       IN  head' = <<<<"product">>, QradarName.text,
                     IF id \in Valued THEN record[id].text ELSE <<"default">>,
                     QradarName.text, <<"severity">>>>
    /\ CefLine
    /\ UNCHANGED <<format, stream, record>>

(* json.dumps does the escaping. *)
ToJson ==
    /\ Formatting("json")
    /\ fields' = JsonFields
    /\ UNCHANGED <<format, stream, record, head, line>>

Next == ToLeef \/ ToCef \/ ToQradar \/ ToJson \/ Refuse

Spec == Init /\ [][Next]_vars
-----------------------------------------------------------------------------
(* A reader of lines, who knows the format and not this program. *)

(* How many backslashes the first n characters of s end with. *)
Backslashes(s, n) ==
    LET run[m \in 0 .. n] == IF m > 0 /\ s[m] = "bs" THEN run[m - 1] + 1 ELSE 0
    IN  run[n]

(* The character after the first n of s is escaped. *)
Escaping(s, n) == Backslashes(s, n) % 2 = 1

(* Where c stands and is not escaped. *)
Bare(s, c) == {i \in DOMAIN s : s[i] = c /\ ~Escaping(s, i - 1)}

Unescaped(s) ==
    LET escapes == Bare(s, "bs")
    IN  FlattenSeq([i \in DOMAIN s |->
            CASE i \in escapes -> <<>>
              [] i - 1 \in escapes /\ s[i] = "n" -> <<"lf">>
              [] i - 1 \in escapes /\ s[i] = "r" -> <<"cr">>
              [] OTHER -> <<s[i]>>])

(* The n-th smallest of a set of positions. *)
Nth(positions, n) == CHOOSE p \in positions : Cardinality({q \in positions : q <= p}) = n

Between(s, from, to) == SubSeq(s, from + 1, to - 1)

(* A CEF header has seven parts. *)
HeaderEnd == Nth(Bare(line, "pipe"), 7)

HeadRead ==
    [n \in 1 .. 5 |-> Unescaped(Between(line, Nth(Bare(line, "pipe"), n + 1), Nth(Bare(line, "pipe"), n + 2)))]

(* Keys with their values: in CEF a key is the word before a bare "=", in LEEF
   what stands before the first "=" between two pipes. *)
CefRead ==
    LET ext    == Append(SubSeq(line, HeaderEnd, Len(line)), "sp")
        equals == Bare(ext, "eq")
        Space(e) == Max({j \in 1 .. e : j = 1 \/ ext[j] = "sp"})   \* before the key
    IN  {LET later == {d \in equals : d > e}
         IN  <<Between(ext, Space(e), e),
               Unescaped(Between(ext, e, IF later = {} THEN Len(ext) ELSE Space(Min(later))))>> :
            e \in equals}

LeefRead ==
    LET text  == Append(line, "pipe")
        pipes == {i \in DOMAIN text : text[i] = "pipe"}
    IN  {LET from == Nth(pipes, n)
             to   == Nth(pipes, n + 1)
             e    == Min({i \in from .. to : text[i] = "eq" \/ i = to})
         IN  <<Between(text, from, e), Between(text, e, to)>> : n \in 5 .. (Cardinality(pipes) - 1)}

(* LEEF's reader sees blanks for what Sanitise replaces. *)
Same(read, text) ==
    /\ Len(read) = Len(text)
    /\ \A i \in DOMAIN text :
          \/ read[i] = text[i]
          \/ format = "leef" /\ read[i] = "sp" /\ text[i] \in {"tab", "lf", "cr", "pipe"}

SameOrCut(read, field) ==
    \/ Same(read, field.text)
    \/ /\ field.cut /\ read # <<>> /\ Last(read) = "[TRUNC]"
       /\ Same(Front(read), SubSeq(field.text, 1, Len(read) - 1))

Read == IF format = "leef" THEN LeefRead ELSE CefRead

-----------------------------------------------------------------------------
(* Properties. *)

(* A reader of the line finds the keys and the values that were put into it,
   whatever characters the values are made of and wherever a long one is cut:
   no value ends a field early, starts another or swallows a separator
   (cef_utils.py, leef.py sanitise). *)
ReadsBack ==
    outcome = "line" /\ format # "json" =>
        \E read \in {Read} :
            /\ {r[1] : r \in read} = {<<k>> : k \in DOMAIN fields}
            /\ \A r \in read : SameOrCut(r[2], fields[r[1][1]])
            /\ format # "leef" => HeadRead = head

(* Newline framing and the log file take a line for one event.  Line feeds of
   a value reach the line only through a CEF header, where cef_escape_header
   lets them pass and the event becomes two messages. *)
OneLine ==
    outcome = "line" =>
        \A i \in DOMAIN line :
            line[i] \in {"lf", "cr"} => format \in {"cef", "qradar"} /\ i < HeaderEnd

(* The keys a format has for a field of the record. *)
KeysFor(k) ==
    LET Rows(map) == IF k \in MapKeys(map) THEN {map[i][2] : i \in {j \in DOMAIN map : map[j][1] = k}}
                                           ELSE {k}
    IN  CASE format = "leef" -> Rows(LeefMap[stream])
          [] format = "cef"  -> Rows(CefMap[stream])
          [] OTHER           -> {k}

(* Every field with a value reaches the line, mapped or under its own name,
   unless another field of the record or of the format has the key it would
   have: so it is with CEF's three sources of fileHash, of which the last one
   is kept, and with a field that is named like a key of the format. *)
NothingVanishes ==
    outcome = "line" =>
        \A k \in Valued :
            \/ \E o \in DOMAIN fields : fields[o].from = k
            \/ \E o \in KeysFor(k) \cap DOMAIN fields : fields[o].from # k
=============================================================================
