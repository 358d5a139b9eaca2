---------------------------- MODULE DocumentMerge ----------------------------
(***************************************************************************)
(* How `gitveil resolve` merges documents.  A document is taken apart into *)
(* its values and its layout, the two are merged one without the other, by *)
(* rules of their own, and put together again: a text file and a document  *)
(* to encrypt.  Two clones edit a file and merge it, again and again.      *)
(*                                                                         *)
(* A text is a sequence of lines, each an assignment or a comment, and a   *)
(* rest (line ending, final newline, trailing comments).  The layout of a  *)
(* dotenv file is one entry per key, with the comments above it; that of a *)
(* TOML or YAML file is a template, the lines with their values cut out;   *)
(* JSON has none but the rest.  A style of a TOML assignment is the quotes *)
(* of its string, one of YAML is what stands around the value.             *)
(*                                                                         *)
(* Left out: nested mappings, which follow the rules of the outermost one  *)
(* at each level, a file that has no base, and line endings of templates.  *)
(***************************************************************************)
EXTENDS Integers, SequencesExt

CONSTANTS
  Keys, Vals,
  Styles,        \* quotes, comments, exports of a line; what a comment says
  Rests,
  DefaultStyle,  \* the style of an assignment without entry
  NoKey,         \* the key of a comment line
  NoItem,        \* there is no such line, entry or value
  Clash,         \* both sides have changed it
  FirstTexts,    \* bound: texts the clones start from
  MaxEdits       \* bound: edits of either clone, all merges together

VARIABLES
  format,
  base, ours, theirs, \* the documents of the three index stages
  plain,              \* the text file that resolve has written
  cipher,             \* the document in the ciphertext it has written
  outcome,            \* of the merge
  edits               \* edits made so far

stages == <<base, ours, theirs>>
vars == <<format, stages, plain, cipher, outcome, edits>>

-----------------------------------------------------------------------------
(* Texts and documents.                                                     *)

Templates == {"toml", "yaml"}
Formats == {"dotenv", "json"} \cup Templates

Items == [key : Keys, value : Vals]                \* values of a document
Entries == [key : Keys, style : Styles]            \* how they are written
Lines == Entries \cup [key : {NoKey}, style : Styles]
Layouts == [lines : Seq(Lines), rest : Rests, comments : Seq(Lines)]
Documents == [root : Seq(Items), layout : Layouts]
TextLines == [key : Keys, value : Vals, style : Styles]
             \cup [key : {NoKey}, value : {NoItem}, style : Styles]
Texts == [lines : Seq(TextLines), rest : Rests]

ASSUME MergeAssumption ==
  /\ NoKey \notin Keys /\ NoItem \notin Vals
  /\ NoItem \notin Items \cup Lines \cup TextLines
  /\ Clash \notin Items \cup Lines \cup {NoItem} \cup Rests
  /\ Clash \notin Seq(Items) /\ Clash \notin Seq(Lines)
  /\ Clash \notin Layouts /\ Clash \notin Documents
  /\ DefaultStyle \in Styles
  /\ FirstTexts \subseteq Texts
  /\ MaxEdits \in Nat

Names(items) == {items[i].key : i \in DOMAIN items} \ {NoKey}

Find(items, k) ==
  IF k \in Names(items) THEN items[CHOOSE i \in DOMAIN items : items[i].key = k]
  ELSE NoItem

\* What a sequence has at some places, in order.
Pick(s, places) ==
  LET Rank(i) == Cardinality({j \in places : j <= i})
  IN  [n \in 1..Cardinality(places) |-> s[CHOOSE i \in places : Rank(i) = n]]

Keyed(items) == {i \in DOMAIN items : items[i].key # NoKey}

KeyOrder(items) == Pick([i \in DOMAIN items |-> items[i].key], Keyed(items))

CommentsOf(items) == Pick(items, DOMAIN items \ Keyed(items))

KeysOnce(items) ==
  \A i, j \in Keyed(items) : items[i].key = items[j].key => i = j

\* Every parser refuses a key that comes twice.  A dotenv comment belongs to
\* the entry below it, or to the rest; JSON has none.
Readable(text) ==
  KeysOnce(text.lines) /\ (format \in Templates \/ Keyed(text.lines) = DOMAIN text.lines)

\* YAML keeps its comment lines twice, in the template and beside it.
Parse(text) ==
  LET lines == IF format = "json" THEN <<>>
               ELSE [i \in DOMAIN text.lines |->
                       [key |-> text.lines[i].key, style |-> text.lines[i].style]]
  IN
  [root   |-> LET order == KeyOrder(text.lines)
              IN  [i \in DOMAIN order |->
                     [key |-> order[i], value |-> Find(text.lines, order[i]).value]],
   layout |-> [lines |-> lines, rest |-> text.rest,
               comments |-> IF format = "yaml" THEN CommentsOf(lines) ELSE <<>>]]

\* A template is filled in with the values; any other text follows the values
\* and looks up their entries.
Generate(d) ==
  [lines |->
     IF format \notin Templates
     THEN [i \in DOMAIN d.root |->
             LET entry == Find(d.layout.lines, d.root[i].key)
             IN  [key |-> d.root[i].key, value |-> d.root[i].value,
                  style |-> IF entry = NoItem THEN DefaultStyle ELSE entry.style]]
     ELSE [i \in DOMAIN d.layout.lines |->
             LET line == d.layout.lines[i]
                 item == Find(d.root, line.key)
             IN  [key |-> line.key, value |-> IF item = NoItem THEN NoItem ELSE item.value,
                  style |-> line.style]],
   rest |-> d.layout.rest]

-----------------------------------------------------------------------------
(* Merging items that have keys: values, and dotenv entries.                *)

\* Mutant: a change of ours is preferred to any of theirs.
PreferOurs(b, o, t) == IF o = b THEN t ELSE o

MergeField(b, o, t) ==
  CASE o = t \/ t = b -> o
    [] o # t /\ o = b -> t
    [] o # t /\ o # b /\ t # b -> Clash

Then(s, t) == s \o Pick(t, {i \in DOMAIN t : t[i] \notin ToSet(s)})

\* The order in which shared keys come on all three sides: whoever has moved
\* one goes first, the keys of the other one and of the base follow.
Orders(b, o, t) ==
  LET shared == ToSet(b) \cap ToSet(o) \cap ToSet(t)
      Shared(s) == Pick(s, {i \in DOMAIN s : s[i] \in shared})
  IN  [b |-> Shared(b), o |-> Shared(o), t |-> Shared(t)]

OrderClashes(b, o, t) ==
  LET shared == Orders(b, o, t)
  IN  MergeField(shared.b, shared.o, shared.t) = Clash

\* Mutant: keys that only the second side has are not looked at.
OrderOfOneSide(b, o, t) == Then(o, b)

\* Mutant: whoever has moved nothing goes first.
OrderOfStayer(b, o, t) ==
  LET shared == Orders(b, o, t)
  IN  IF shared.o = shared.t \/ shared.o # shared.b
      THEN Then(Then(t, o), b) ELSE Then(Then(o, t), b)

MergedOrder(b, o, t) ==
  LET shared == Orders(b, o, t)
  IN  IF shared.o # shared.t /\ shared.o = shared.b
      THEN Then(Then(t, o), b) ELSE Then(Then(o, t), b)

MergeItems(b, o, t) ==
  LET order == MergedOrder(KeyOrder(b), KeyOrder(o), KeyOrder(t))
      merged == [i \in DOMAIN order |->
                   MergeField(Find(b, order[i]), Find(o, order[i]), Find(t, order[i]))]
  IN  IF OrderClashes(KeyOrder(b), KeyOrder(o), KeyOrder(t)) \/ Clash \in ToSet(merged)
      THEN Clash
      ELSE Pick(merged, {i \in DOMAIN merged : merged[i] # NoItem})

\* Equal sides, or one that has not changed, need no such merge.
MergeRoots(b, o, t) ==
  IF MergeField(b, o, t) # Clash THEN MergeField(b, o, t) ELSE MergeItems(b, o, t)

-----------------------------------------------------------------------------
(* Merging the lines of templates.                                          *)

\* The longest matchings of equal lines, in order.  The diff library finds
\* one of them.
Alignments(b, s) ==
  LET pairs == {p \in (DOMAIN b) \X (DOMAIN s) : b[p[1]] = s[p[2]]}
      matchings == {m \in SUBSET pairs :
                      \A p, q \in m : p # q => (p[1] < q[1] <=> p[2] < q[2]) /\ p[1] # q[1]}
  IN  {m \in matchings : \A n \in matchings : Cardinality(n) <= Cardinality(m)}

\* What lies between two matches: lines first+1 to last of the base give way
\* to new ones.
Hunks(b, s, alignment) ==
  LET ends == alignment \cup {<<0, 0>>, <<Len(b) + 1, Len(s) + 1>>}
      gaps == {g \in ends \X ends : /\ g[1][1] < g[2][1]
                                    /\ \A e \in ends : e[1] <= g[1][1] \/ e[1] >= g[2][1]}
      Hunk(g) == [first |-> g[1][1], last |-> g[2][1] - 1,
                  new |-> SubSeq(s, g[1][2] + 1, g[2][2] - 1)]
  IN  {h \in {Hunk(g) : g \in gaps} : h.first # h.last \/ h.new # <<>>}

Overlap(g, h) ==
  IF g.first = g.last /\ h.first = h.last THEN g.first = h.first
  ELSE \/ g.first < h.last /\ h.first < g.last
       \/ g.first = h.first
       \/ g.last = h.last /\ g.first # g.last /\ h.first # h.last

Apply(b, hunks) ==
  LET New(i) == {h.new : h \in {h \in hunks : h.first = i}}
      Kept(i) == i > 0 /\ \A h \in hunks : ~(h.first < i /\ i <= h.last)
      piece == [i \in 1..Len(b) + 1 |->
                  (IF Kept(i - 1) THEN <<b[i - 1]>> ELSE <<>>)
                  \o (IF New(i - 1) = {} THEN <<>> ELSE CHOOSE new \in New(i - 1) : TRUE)]
  IN  FlattenSeq(piece)

\* Mutant: of two hunks that overlap, theirs is dropped.
MergeHunksOfOurs(b, g, h) ==
  Apply(b, g \cup {their \in h : \A our \in g : ~Overlap(our, their)})

MergeHunks(b, g, h) ==
  IF \E our \in g, their \in h : Overlap(our, their) /\ our # their THEN Clash
  ELSE Apply(b, g \cup h)

\* What has been cut out, in order; for TOML with its quotes.
Placeholders(lines) ==
  IF format = "toml" THEN Pick(lines, Keyed(lines)) ELSE KeyOrder(lines)

\* Both templates have changed: they must have the same values cut out.
MergedTemplates(b, o, t) ==
  IF MergeField(b, o, t) # Clash THEN {MergeField(b, o, t)}
  ELSE IF Placeholders(b) \notin {Placeholders(o)} \cap {Placeholders(t)} THEN {Clash}
  ELSE {MergeHunks(b, Hunks(b, o, x), Hunks(b, t, y)) :
          x \in Alignments(b, o), y \in Alignments(b, t)}

\* merge_dotenv merges entries by the rules that merged_order and merge_at have
\* for values.
MergedLayouts(b, o, t) ==
  IF MergeField(b, o, t) # Clash THEN {MergeField(b, o, t)}
  ELSE LET rest == MergeField(b.rest, o.rest, t.rest)
           comments == MergeField(b.comments, o.comments, t.comments)
           merged == IF format \in Templates THEN MergedTemplates(b.lines, o.lines, t.lines)
                     ELSE {MergeItems(b.lines, o.lines, t.lines)}
       IN  {IF Clash \in {lines, rest, comments} THEN Clash
            ELSE [lines |-> lines, rest |-> rest, comments |-> comments] : lines \in merged}

\* plan_merge: what may come of the three documents.
Merges(b, o, t) ==
  LET root == MergeRoots(b.root, o.root, t.root)
  IN  {IF root = Clash \/ l = Clash THEN Clash ELSE [root |-> root, layout |-> l] :
         l \in MergedLayouts(b.layout, o.layout, t.layout)}

-----------------------------------------------------------------------------
(* The clones.                                                              *)

NoText == [lines |-> <<>>, rest |-> NoItem]
Nothing == [root |-> <<>>, layout |-> NoText]

Init ==
  /\ format \in Formats
  /\ \E text \in FirstTexts : Readable(text) /\ base = Parse(text)
  /\ ours = base /\ theirs = base
  /\ plain = NoText /\ cipher = Nothing
  /\ outcome = "none"
  /\ edits = [ours |-> 0, theirs |-> 0]

Replaced(line) ==
  {[line EXCEPT !.style = x] : x \in Styles} \cup
  (IF line.key = NoKey THEN {} ELSE {[line EXCEPT !.value = v] : v \in Vals})

NewLines(lines) ==
  [key : Keys \ Names(lines), value : Vals, style : {DefaultStyle}] \cup
  (IF format \notin Templates THEN {} ELSE [key : {NoKey}, value : {NoItem}, style : {DefaultStyle}])

Edited(text) ==
  LET ls == text.lines
      With(S) == {[lines |-> l, rest |-> text.rest] : l \in S}
  IN  (UNION {With({ReplaceAt(ls, i, l) : l \in Replaced(ls[i])}) : i \in DOMAIN ls})
      \cup With({RemoveAt(ls, i) : i \in DOMAIN ls})
      \cup With({InsertAt(ls, i, l) : i \in 1..Len(ls) + 1, l \in NewLines(ls)})
      \cup With({[ls EXCEPT ![i] = ls[i + 1], ![i + 1] = ls[i]] : i \in 1..Len(ls) - 1})
      \cup (IF format \in Templates THEN {} ELSE {[lines |-> ls, rest |-> r] : r \in Rests})

\* A clone edits its text and seals it.
EditOurs ==
  /\ outcome = "none" /\ edits.ours < MaxEdits
  /\ \E text \in Edited(Generate(ours)) : ours' = Parse(text)
  /\ edits' = [edits EXCEPT !.ours = @ + 1]
  /\ UNCHANGED <<format, base, theirs, plain, cipher, outcome>>

EditTheirs ==
  /\ outcome = "none" /\ edits.theirs < MaxEdits
  /\ \E text \in Edited(Generate(theirs)) : theirs' = Parse(text)
  /\ edits' = [edits EXCEPT !.theirs = @ + 1]
  /\ UNCHANGED <<format, base, ours, plain, cipher, outcome>>

\* The generator of TOML parses the template before it fills it in.
Generates(d) == format = "toml" => Readable(Generate(d))

\* resolve_entry: both files are written, or the text is left to the user.  A
\* merge that cannot be generated is an error, and nothing is written.
Resolve ==
  /\ outcome = "none"
  /\ \E merged \in Merges(base, ours, theirs) :
       IF merged = Clash
       THEN outcome' = "conflict" /\ plain' = NoText /\ cipher' = ours
       ELSE /\ Generates(merged)
            /\ outcome' = "clean" /\ plain' = Generate(merged) /\ cipher' = merged
  /\ UNCHANGED <<format, stages, edits>>

\* plan_seal: the text is sealed if it is not what the ciphertext holds.
Seal ==
  /\ outcome = "clean" /\ Readable(plain) /\ cipher # Parse(plain)
  /\ cipher' = Parse(plain)
  /\ outcome' = "sealed"
  /\ UNCHANGED <<format, stages, plain, edits>>

\* The merge is committed, and the other clone goes on from its own side.
\* Nobody commits a text that Gitveil refuses to read.
Commit ==
  /\ outcome \in {"clean", "sealed"} /\ Readable(plain)
  /\ base' = theirs /\ ours' = cipher
  /\ plain' = NoText /\ cipher' = Nothing
  /\ outcome' = "none"
  /\ UNCHANGED <<format, theirs, edits>>

Next == EditOurs \/ EditTheirs \/ Resolve \/ Seal \/ Commit

Spec == Init /\ [][Next]_vars

-----------------------------------------------------------------------------
(* Properties.                                                              *)

LineOf(d, k) == Find(Generate(d).lines, k)
Comments(d) == {line \in ToSet(Generate(d).lines) : line.key = NoKey}
Copies(d, line) ==
  LET lines == Generate(d).lines IN Cardinality({i \in DOMAIN lines : lines[i] = line})

\* What one side alone has changed on a line, its value, its style or whether
\* it is there, is so in the text; a comment that was added is in it too
\* (README.md:207 "Changes to different keys merge automatically").  That is,
\* if the text has every key once.
OneSidedEditsAreTaken ==
  outcome = "clean" /\ Readable(plain) =>
    /\ \A k \in Keys :
         /\ LineOf(ours, k) = LineOf(base, k) => Find(plain.lines, k) = LineOf(theirs, k)
         /\ LineOf(theirs, k) = LineOf(base, k) => Find(plain.lines, k) = LineOf(ours, k)
    /\ \A side \in {ours, theirs} : \A line \in Comments(side) :
         Copies(side, line) > Copies(base, line) => line \in ToSet(plain.lines)

\* There is one diff that the library can find.
OneDiff(b, s) == Cardinality(Alignments(b.layout.lines, s.layout.lines)) = 1

\* tests/contract_source.rs:157: "every_adapter_rejects_duplicate_keys".  What
\* resolve writes for a clean merge is a text that seal can read.
ResolvedTextIsReadable ==
  outcome = "clean" => Readable(plain) \/ ~OneDiff(base, ours) \/ ~OneDiff(base, theirs)

\* Values and layout are merged apart, with early ways out of their own, but
\* a key comes out of both or of neither (source/toml.rs restore_table and
\* source/yaml.rs generate refuse anything else, after the merge is decided).
LayoutCoversValues ==
  outcome = "clean" /\ format # "json" => Names(cipher.layout.lines) = Names(cipher.root)

\* It does not matter in which of two clones the merge is made: ours and theirs
\* swap places in merge, merge_three_way and merge_text_lines, and the same
\* lines come out or both conflict, the order of what one side added apart.
SidesAreEqual ==
  LET Content(m) == IF m = Clash THEN Clash
                    ELSE [lines |-> ToSet(Generate(m).lines), rest |-> m.layout.rest]
  IN  outcome \in {"clean", "conflict"} =>
        {Content(m) : m \in Merges(base, ours, theirs)} =
        {Content(m) : m \in Merges(base, theirs, ours)}

Before(d, x, y) ==
  \E i, j \in DOMAIN d.root : i < j /\ d.root[i].key = x /\ d.root[j].key = y

\* Two keys that are on all sides come in the order of the side that has
\* swapped them, and in the old one if no side has (semantic/merge.rs
\* merged_order compares whole orders, with all the shared keys in them).
MovesAreKept ==
  outcome = "clean" =>
    \A x, y \in Names(base.root) \cap Names(ours.root) \cap Names(theirs.root) :
      x \in Names(cipher.root) /\ y \in Names(cipher.root) =>
        (Before(cipher, x, y) <=>
           MergeField(Before(base, x, y), Before(ours, x, y), Before(theirs, x, y)))

\* README.md:193: seal "preserves the entire ciphertext byte-for-byte when
\* plaintext semantics and layout are unchanged".  After resolve has written
\* both files, seal finds nothing to write.
SealAfterResolveIsUnchanged == outcome = "clean" => Parse(plain) = cipher
=============================================================================
