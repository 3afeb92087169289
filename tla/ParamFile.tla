----------------------------- MODULE ParamFile -----------------------------
(***************************************************************************)
(* The encoder's configuration as Enc::load_params() (enc.cpp) reads it    *)
(* with readparamfile() (read_params.cpp): "name = value" items, cut out   *)
(* of a buffer in place.  A file is a sequence of lexemes: the words of a  *)
(* line without the spaces in them, the space (or tab) and the characters  *)
(* that mean something to ParseContent().                                  *)
(***************************************************************************)
EXTENDS Integers, Sequences, SequencesExt

CONSTANTS TokenNames, \* names in sTokenMap
          Digits,     \* lexemes sscanf("%d") reads
          MaxItems    \* CFG_MAX_ITEMS_TO_PARSE

ASSUME ParamFileAssumption == /\ (TokenNames \union Digits) \cap {"nl", "sp", "cr", "#", "quote"} = {}
                              /\ MaxItems \in Nat

Nul == "NUL"
Unset == <<>>  \* a variable nobody assigned: any number; others have digits

(* A variable for each name of the table that load_params() builds.        *)
NoParams == [n \in TokenNames |-> Unset]

(* What is in a piece of memory after the beginning was written over.      *)
Overlay(new, old) == new \o SubSeq(old, Len(new) + 1, Len(old))

(* The buffer up to strlen(). *)
Text(buf) == LET nul == {i \in DOMAIN buf : buf[i] = Nul}
             IN  IF nul = {} THEN buf
                 ELSE SubSeq(buf, 1, (CHOOSE i \in nul : \A j \in nul : i <= j) - 1)

(* What strlen() finds behind the end of a file. *)
Behind(file, heap) == Text(SubSeq(heap, Len(file) + 1, Len(heap)))
-----------------------------------------------------------------------------
(* Stage one of ParseContent(): where each character leaves the scan.  An  *)
(* item is "open" until a NUL is written behind it.                        *)
Scan == [items |-> <<>>, open |-> {}, buf |-> <<>>,
         inItem |-> FALSE, inString |-> FALSE, comment |-> FALSE]

(* The character stays in the buffer, and in the open items. *)
Keep(s, c) == [s EXCEPT !.buf = Append(@, c),
                        !.items = [i \in DOMAIN @ |-> IF i \in s.open THEN Append(@[i], c) ELSE @[i]]]
(* The character is replaced by a NUL. *)
Cut(s) == [s EXCEPT !.buf = Append(@, Nul), !.open = {}]
(* items[item++] = p; InItem = ~InItem. *)
NewItem(s) == [s EXCEPT !.items = Append(@, <<>>), !.open = @ \union {Len(s.items) + 1},
                        !.inItem = ~@]

ScanChar(s, c) ==
  IF s.comment /\ c # "nl" THEN Keep(s, c)
  ELSE CASE c = "cr" -> Keep(s, c)
         [] c = "#"  -> [Cut(s) EXCEPT !.comment = TRUE, !.inString = FALSE, !.inItem = FALSE]
         [] c = "nl" -> [Cut(s) EXCEPT !.comment = FALSE, !.inString = FALSE, !.inItem = FALSE]
         [] c = "sp" -> IF s.inString THEN Keep(s, c) ELSE [Cut(s) EXCEPT !.inItem = FALSE]
         [] c = "quote" -> LET t == IF s.inString THEN [Cut(s) EXCEPT !.inItem = FALSE]
                                    ELSE NewItem(Cut(s))
                           IN  [t EXCEPT !.inString = ~@]
         [] OTHER -> IF s.inItem THEN Keep(s, c) ELSE Keep(NewItem(s), c)

Scanned(text) ==
  LET at[n \in 0 .. Len(text)] == IF n = 0 THEN Scan ELSE ScanChar(at[n - 1], text[n])
  IN  at[Len(text)]

(* sscanf("%d"): the digits in front; without any the variable is as it    *)
(* was before.                                                             *)
Number(item, old) ==
  LET n == {i \in 0 .. Len(item) : \A j \in 1 .. i : item[j] \in Digits}
      k == CHOOSE i \in n : \A j \in n : j <= i
  IN  IF k = 0 THEN old ELSE SubSeq(item, 1, k)

(* Stage two for the items from i + 1 on: name, "=", value. *)
Assign(items, st, i) ==
  IF st.failed THEN st
  ELSE IF ~(Len(items[i+1]) = 1 /\ items[i+1][1] \in TokenNames) \/ items[i+2] # <<"=">>
       THEN [st EXCEPT !.failed = TRUE]
  ELSE LET v == IF i + 3 > Len(items) THEN Unset ELSE Number(items[i+3], st.last)
       IN  [st EXCEPT !.params[items[i+1][1]] = v, !.last = v]

(* Fault: the last item is not looked at. *)
TriplesButLast(items) == [k \in 1 .. (Len(items) - 1) \div 3 |-> 3 * (k - 1)]

(* item--; for (i=0; i<item; i+=3): a last triple may lack its value. *)
Triples(items) == [k \in 1 .. (Len(items) + 1) \div 3 |-> 3 * (k - 1)]

Assigned(items) ==
  LET of == Triples(items)
      st[k \in 0 .. Len(of)] == IF k = 0 THEN [params |-> NoParams, last |-> Unset, failed |-> FALSE]
                                ELSE Assign(items, st[k - 1], of[k])
  IN  st[Len(of)]

(* More items than the table holds, which is not looked at, or a last one  *)
(* that is read but was never filled in and is any pointer: undefined.     *)
Wild(items) == Len(items) > MaxItems \/ (Len(items) % 3 = 2 /\ ~Assigned(items).failed)

(* ParseContent(): the parameters, all of which are unset before, and the  *)
(* buffer it leaves.                                                       *)
ParseContent(text) ==
  LET s == Scanned(text)
  IN  [params |-> Assigned(s.items).params, buf |-> s.buf, wild |-> Wild(s.items)]

(* readparamfile(): the file is copied into a new buffer without the NUL   *)
(* at its end, and the result of ParseContent() is not looked at.  heap is *)
(* what the buffer held before.                                            *)
readparamfile(file, heap) ==
  LET buf == Overlay(file, heap)
      p   == ParseContent(Text(buf))
  IN  [params |-> p.params, heap |-> Overlay(p.buf, buf), wild |-> p.wild]
-----------------------------------------------------------------------------
(* Of the line that begins at p, what is neither comment nor blank.        *)
Starts(file) == {1} \union {i + 1 : i \in {j \in DOMAIN file : file[j] = "nl"}}
Words(file, p) ==
  {i \in p .. Len(file) : file[i] \notin {"sp", "cr"} /\ \A j \in p .. i : file[j] \notin {"nl", "#"}}

(* name = value, where w are the words of a line: what it assigns, if it   *)
(* does.                                                                   *)
Assignments(file, w) ==
  {[name |-> file[x[1]], value |-> SubSeq(file, x[3], x[4])] :
     x \in {y \in w \X w \X w \X w :
              /\ y[1] < y[2] /\ y[2] < y[3] /\ w = {y[1], y[2]} \union (y[3] .. y[4])
              /\ file[y[1]] \in TokenNames /\ file[y[2]] = "="
              /\ \A i \in y[3] .. y[4] : file[i] \in Digits}}

(* What a file says: the assignments up to the first line that is neither  *)
(* one nor empty.                                                          *)
Meaning(file) ==
  LET Says(p) == Assignments(file, Words(file, p))
      Reached(p) == \A q \in Starts(file) : q <= p => Words(file, q) = {} \/ Says(q) # {}
      For(n) == {p \in Starts(file) : Reached(p) /\ \E x \in Says(p) : x.name = n}
  IN  [n \in TokenNames |->
         IF For(n) = {} THEN Unset
         ELSE LET p == CHOOSE q \in For(n) : \A r \in For(n) : r <= q
              IN  (CHOOSE x \in Says(p) : TRUE).value]

(* Each item of a file belongs to an assignment, and there is room for one *)
(* more: by itself, not in a buffer.                                       *)
Fits(file) == Len(Scanned(file).items) % 3 = 0 /\ Len(Scanned(file).items) < MaxItems

(* A file the parser reads as it is meant, and of which no item is left    *)
(* over: by itself, not in a buffer.                                       *)
ReadAsMeant(file) == Len(Scanned(file).items) % 3 = 0 /\ ParseContent(file).params = Meaning(file)

(* Files as they are written (DefaultEncCfg is one): each line has its     *)
(* newline, and is empty but for blanks and a comment, or has the three    *)
(* words of an assignment, with spaces between them, in front of those.    *)
EmptyFrom(file, k, q) ==
  \A i \in k .. q - 1 : file[i] \in {"sp", "cr"} \/ \E j \in k .. i : file[j] = "#"
IsAssignment(file, p, q, a, b, c, d) ==
  /\ p <= a /\ a + 1 < b /\ b + 1 < c /\ c <= d /\ d < q
  /\ \A i \in p .. c - 1 : i \notin {a, b} => file[i] = "sp"
  /\ file[a] \in TokenNames /\ file[b] = "=" /\ \A i \in c .. d : file[i] \in Digits
  /\ EmptyFrom(file, d + 1, q)
IsLine(file, p, q) ==
  EmptyFrom(file, p, q) \/ \E a, b, c, d \in p .. q : IsAssignment(file, p, q, a, b, c, d)
EndsLine(file, p, q) == /\ p <= q /\ file[q] = "nl"
                        /\ \A i \in p .. q - 1 : file[i] # "nl"
Regular(file) == /\ file # <<>> => file[Len(file)] = "nl"
                 /\ \A p \in Starts(file), q \in DOMAIN file : EndsLine(file, p, q) => IsLine(file, p, q)
=============================================================================
