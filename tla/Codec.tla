-------------------------------- MODULE Codec --------------------------------
(***************************************************************************)
(* Writing and reading a document: the schema driven machines output_doc   *)
(* (output.c) and parse_doc (parse.c) with their XML and EXI drivers.      *)
(*                                                                         *)
(* A schema type is the sequence of its attributes and elements; position  *)
(* 0 of a type is its global element and the position after the last one   *)
(* is the terminator (n = 0).  An object is a function from paths to the   *)
(* text of simple values, a path a sequence of <<name, occurrence>>.  The  *)
(* document on the wire is a sequence of pieces of markup (XML) or of bits *)
(* and values (EXI): what an XML tag or a number looks like in characters  *)
(* is left out, what is enough input to recognise it is not.               *)
(***************************************************************************)
EXTENDS Integers, TLC, SequencesExt, FiniteSetsExt

CONSTANTS
    Types,          \* the global elements, in the order of their event codes
    Schema,         \* Schema[type]: its attributes and elements
    Objects,        \* Objects: records [type, val]
    Formats,        \* "xml", "exi"
    Foreign,        \* the pieces of an element that the schema does not have
    MaxForeign,     \* bound on the foreign elements of a document
    Between,        \* TRUE when they also come between two occurrences of an element
    MaxChunk,       \* bound on the chunks in which a document arrives
    Whole           \* TRUE when EXI documents and foreign elements arrive in one chunk

ASSUME /\ ToSet(Types) = DOMAIN Schema /\ Formats \subseteq {"xml", "exi"}
       /\ \A o \in Objects : o.type \in ToSet(Types)

VARIABLES
    format,     \* of the document
    object,     \* what is written
    wire,       \* the document so far
    marks,      \* positions of the wire within foreign elements
    out,        \* the Output
    avail,      \* how much of the wire the reader has
    chunks,     \* in how many chunks it came
    in          \* the Parser

vars == <<format, object, wire, marks, out, avail, chunks, in>>

(***************************************************************************)
(* Schema.                                                                 *)
(***************************************************************************)
At(type, i) == [type |-> type, i |-> i]

Global(type) == [name |-> type, attr |-> FALSE, simple |-> FALSE, str |-> FALSE,
                 min |-> 1, max |-> 1, unbounded |-> FALSE, type |-> type, n |-> 0]

Element(se) == IF se.i = 0 THEN Global(se.type)
               ELSE IF se.i > Len(Schema[se.type])
               THEN [Global(se.type) EXCEPT !.name = "", !.min = 0]
               ELSE Schema[se.type][se.i]

\* se++: behind a global element comes another one, which like the terminator
\* has no event codes
Skip(se, k) == IF se.i = 0 THEN At(se.type, Len(Schema[se.type]) + 1)
               ELSE At(se.type, se.i + k)

First(se) == At(Element(se).type, 1)

Child(base, name, k) == Append(base, <<name, k>>)

Top(stack) == stack[Len(stack)]

\* bit_count, and the n bits of a number, most significant first
BitCount(x) == Min({n \in 0..8 : 2 ^ n > x})

Bits(x, n) == [i \in 1..n |-> <<"bit", (x \div 2 ^ (n - i)) % 2>>]

(***************************************************************************)
(* String tables (string_table.c): one for each name, and a global one.    *)
(***************************************************************************)
NoTables == [local |-> <<>>, global |-> <<>>]

Local(tables, name) == SelectSeq(tables.local, LAMBDA e : e[1] = name)

AddLocal(tables, name, s) == [tables EXCEPT !.local = Append(@, <<name, s>>)]

AddGlobal(tables, s) == [tables EXCEPT !.global = Append(@, s)]

FindString(table, s) == IF Contains(table, s) THEN Min({i \in 1..Len(table) : table[i] = s}) ELSE 0

\* exi_output_string: what is written, and the tables afterwards
ExiOutputString(tables, name, s) ==
    LET local == Local(tables, name)
        l == FindString(local, <<name, s>>)
        g == FindString(tables.global, s)
        added == AddLocal(tables, name, s)
    IN  IF l # 0 THEN [piece |-> <<"local", l, BitCount(Len(local) - 1)>>, tables |-> tables]
        ELSE IF g # 0
        THEN [piece |-> <<"global", g, BitCount(Len(tables.global) - 1)>>, tables |-> added]
        ELSE [piece |-> <<"literal", s>>, tables |-> AddGlobal(added, s)]

\* exi_parse_string: the string "?" stands for a failed look up.
ExiParseString(tables, name, piece) ==
    LET look(table, str(_)) ==
          IF table # <<>> /\ piece[3] = BitCount(Len(table) - 1) /\ piece[2] <= Len(table)
          THEN str(table[piece[2]]) ELSE "?"
        second(e) == e[2]
        same(e) == e
    IN  CASE piece[1] = "local"  -> [s |-> look(Local(tables, name), second), tables |-> tables]
          [] piece[1] = "global" -> [s |-> look(tables.global, same), tables |-> tables]
          [] OTHER -> [s |-> piece[2],
                       tables |-> AddGlobal(AddLocal(tables, name, piece[2]), piece[2])]

(***************************************************************************)
(* Output.  o.open: the start tag before lacks its ">".                    *)
(***************************************************************************)
OutputCount(obj, base, se) ==
    Cardinality({k \in 1..Cardinality(DOMAIN obj) :
                   Child(base, Element(se).name, k) \in DOMAIN obj})

\* output_next, output_skip, element_next, element_skip
OutputNext(o) == LET next == Skip(o.se, 1)
                 IN  [o EXCEPT !.se = next,
                               !.st = IF Element(next).n # 0 THEN "ELEMENT" ELSE "END"]

OutputSkip(o) == OutputNext([o EXCEPT !.code = @ + 1])

ElementNext(o) == OutputSkip([o EXCEPT !.se = Top(o.stack).se, !.base = Top(o.stack).base,
                                       !.stack = Front(@)])

ElementSkip(o) ==
    LET e == Element(Top(o.stack).se)
    IN  IF Top(o.stack).count < e.min THEN [o EXCEPT !.st = "ERROR"]
        ELSE ElementNext([o EXCEPT !.n = IF @ = 0 THEN e.n ELSE @])

OutputElement(o) ==
    LET t == Top(o.stack)
        e == Element(t.se)
    IN  [o EXCEPT !.base = Child(t.base, e.name, t.count + 1),
                  !.n = IF @ # 0 THEN @ ELSE IF t.count >= e.min THEN e.n ELSE 1,
                  !.se = t.se,
                  !.st = IF e.simple THEN "SIMPLE" ELSE "COMPLEX"]

\* output_event: the pieces, and the Output afterwards
XmlEvent(o, e, event) ==
    LET gt == IF o.open /\ event \in {"SIMPLE", "COMPLEX"} THEN <<[k |-> "gt"]>> ELSE <<>>
        piece == CASE event = "EE" -> IF o.open THEN [k |-> "egt"]
                                                ELSE [k |-> "close", name |-> e.name]
                   [] event = "AT" -> [k |-> "attr", name |-> e.name]
                   [] event = "SIMPLE" -> [k |-> "simple", name |-> e.name]
                   [] event = "COMPLEX" -> [k |-> "open", name |-> e.name]
    IN  [pieces |-> Append(gt, piece),
         o |-> [o EXCEPT !.open = IF event = "AT" THEN @ ELSE event = "COMPLEX"]]

ExiEvent(o, e, event) ==
    LET bits == IF event = "EE" /\ o.n = 0 THEN 1 ELSE BitCount(o.n)
    IN  [pieces |-> Bits(o.code, bits), o |-> [o EXCEPT !.n = 0, !.code = 0]]

OutputEvent(o, e, event) == IF format = "xml" THEN XmlEvent(o, e, event)
                                              ELSE ExiEvent(o, e, event)

ExiValue(o, e, s) ==
    IF e.str THEN LET w == ExiOutputString(o.tables, e.name, s)
                  IN  [pieces |-> <<w.piece>>, o |-> [o EXCEPT !.tables = w.tables]]
    ELSE [pieces |-> <<<<"number", s>>>>, o |-> o]

\* output_quoted, output_value; exi_output_value, exi_output_simple
AttrValue(o, e, s) == IF format = "xml" THEN [pieces |-> <<[k |-> "quoted", v |-> s]>>, o |-> o]
                                        ELSE ExiValue(o, e, s)

SimpleValue(o, e, s) ==
    IF format = "xml"
    THEN [pieces |-> IF s = "" THEN <<>> ELSE <<[k |-> "text", v |-> s]>>, o |-> o]
    ELSE IF e.str /\ s = "" THEN [pieces |-> Bits(4, 3), o |-> o]
    ELSE LET w == ExiValue(o, e, s) IN [w EXCEPT !.pieces = Bits(0, 1) \o @]

\* Mutant: whatever occurrence ends, what follows is the next element.
EndOfElementOnce(o) == ElementNext([o EXCEPT !.code = @ - 1])

\* OUTPUT_END after the event: the next occurrence of the element, or what follows
EndOfElement(o) ==
    LET t == Top(o.stack)
        e == Element(t.se)
    IN  IF t.count < t.all THEN OutputElement(o)
        ELSE IF ~e.unbounded /\ t.count = e.max
        THEN ElementNext([o EXCEPT !.code = @ - 1])
        ELSE ElementSkip(o)

Emit(w, o) == /\ wire' = wire \o w.pieces
              /\ out' = o
              /\ UNCHANGED <<format, object, marks, avail, chunks, in>>

Silent(o) == Emit([pieces |-> <<>>], o)

OutputStart ==
    /\ out.st = "START"
    /\ Silent([out EXCEPT !.se = At(object.type, 0), !.st = "ELEMENT", !.n = Len(Types),
                          !.code = FindString(Types, object.type) - 1])

OutputAttribute ==
    /\ out.st = "ELEMENT" /\ Element(out.se).attr
    /\ LET e == Element(out.se)
           o == [out EXCEPT !.n = IF @ = 0 THEN e.n ELSE @]
           at == OutputEvent(o, e, "AT")
           value == AttrValue(at.o, e, object.val[Child(o.base, e.name, 1)])
       IN  IF OutputCount(object.val, o.base, o.se) # 0
           THEN Emit([pieces |-> at.pieces \o value.pieces], OutputNext(value.o))
           ELSE Silent(IF e.min # 0 THEN [o EXCEPT !.st = "ERROR"] ELSE OutputSkip(o))

OutputPush ==
    /\ out.st = "ELEMENT" /\ ~Element(out.se).attr
    /\ LET all == OutputCount(object.val, out.base, out.se)
           o == [out EXCEPT !.stack = Append(@, [se |-> out.se, base |-> out.base,
                                                 count |-> 0, all |-> all])]
       IN  Silent(IF all # 0 THEN OutputElement(o) ELSE ElementSkip(o))

OutputSimple ==
    /\ out.st = "SIMPLE"
    /\ LET e == Element(out.se)
           start == OutputEvent(out, e, "SIMPLE")
           value == SimpleValue(start.o, e, object.val[out.base])
       IN  Emit([pieces |-> start.pieces \o value.pieces], [value.o EXCEPT !.st = "END"])

OutputComplex ==
    /\ out.st = "COMPLEX"
    /\ LET start == OutputEvent(out, Element(out.se), "COMPLEX")
       IN  Emit(start, [start.o EXCEPT !.se = First(out.se), !.st = "ELEMENT"])

OutputEnd ==
    /\ out.st = "END"
    /\ IF out.stack = <<>> THEN Silent([out EXCEPT !.st = "COMPLETE"])
       ELSE LET end == OutputEvent(out, Element(Top(out.stack).se), "EE")
            IN  Emit(end, EndOfElement([end.o EXCEPT !.stack[Len(out.stack)].count = @ + 1]))

\* The document comes from a server whose schema has more elements: before an element,
\* behind the last one, and between two occurrences of one.
OutputForeign ==
    /\ format = "xml" /\ out.stack # <<>>
    /\ \/ out.st = "ELEMENT" /\ ~Element(out.se).attr
       \/ out.st = "END" /\ ~Element(Top(out.stack).se).simple
       \/ out.st \in {"SIMPLE", "COMPLEX"} /\ Top(out.stack).count # 0 /\ Between
    /\ Cardinality(marks) < MaxForeign * Len(Foreign)
    /\ LET gt == IF out.open THEN <<[k |-> "gt"]>> ELSE <<>>
           start == Len(wire) + Len(gt)
       IN  /\ wire' = wire \o gt \o Foreign
           /\ marks' = marks \union (start + 1)..(start + Len(Foreign))
    /\ out' = [out EXCEPT !.open = FALSE]
    /\ UNCHANGED <<format, object, avail, chunks, in>>

(***************************************************************************)
(* Input.  in.wait: parse_doc returned without an object.  The tokens of   *)
(* XML are records; a token whose end has not arrived is INCOMPLETE.       *)
(***************************************************************************)
Incomplete == [k |-> "INCOMPLETE", name |-> ""]

Tagged == {"START", "EMPTY"}

\* The attributes of the tag in wire[i + 1 .. j - 1].  A tag without any leaves
\* those of the tag before in place; the root has at least its name space.
XmlAttributes(p, i, j) ==
    IF j = i + 1 /\ i # 1 THEN p.attrs
    ELSE [name \in {wire[k].name : k \in {k \in i..j : wire[k].k = "attr"}} |->
            wire[1 + CHOOSE k \in i..j : wire[k].k = "attr" /\ wire[k].name = name].v]

\* xml_token, xml_tag
XmlToken(p) ==
    LET i == p.pos + 1
        ends == {j \in i..avail : wire[j].k \in {"gt", "egt"}}
        Took(j, kind, q) == [q EXCEPT !.pos = j, !.tok = kind]
    IN  IF i > avail THEN [p EXCEPT !.tok = Incomplete]
        ELSE CASE wire[i].k = "simple" -> Took(i, [k |-> "START", name |-> wire[i].name], p)
               [] wire[i].k = "close"  -> Took(i, [k |-> "END", name |-> wire[i].name], p)
               [] wire[i].k = "text" /\ i < avail -> Took(i, [k |-> "TEXT", name |-> wire[i].v], p)
               [] wire[i].k = "open" /\ ends # {} ->
                    Took(Min(ends), [k |-> IF wire[Min(ends)].k = "gt" THEN "START" ELSE "EMPTY",
                                     name |-> wire[i].name],
                         [p EXCEPT !.attrs = XmlAttributes(p, i, Min(ends))])
               [] OTHER -> [p EXCEPT !.tok = Incomplete]

\* parse_token
ParseToken(p) == IF ~p.need THEN p
                 ELSE LET q == XmlToken(p) IN [q EXCEPT !.need = q.tok = Incomplete]

Invalid(p) == [p EXCEPT !.st = "INVALID"]

Wait(p) == [p EXCEPT !.wait = TRUE]

\* start_tag once the name has matched
StartTag(p, se) ==
    [p EXCEPT !.empty = p.tok.k = "EMPTY", !.need = TRUE,
              !.st = IF p.tok.k = "EMPTY" /\ Element(se).simple THEN "INVALID" ELSE @]

Named(p, type, from) == {i \in from..Len(Schema[type]) :
                           ~Schema[type][i].attr /\ Schema[type][i].name = p.tok.name}

XmlStart(p) ==
    LET q == ParseToken([p EXCEPT !.need = TRUE])
    IN  IF q.tok = Incomplete THEN Wait(q)
        ELSE IF q.tok.k \notin Tagged \/ q.tok.name \notin DOMAIN Schema THEN Invalid(q)
        ELSE [q EXCEPT !.type = q.tok.name, !.se = At(q.tok.name, 0), !.st = "ELEMENT",
                       !.empty = q.tok.k = "EMPTY", !.need = q.tok.k # "EMPTY"]

\* xml_next on a tag: the first element that may still come, else any element
\* of the sequence, else xml_skip_unknown
XmlNextTag(q, type) ==
    LET rest == IF q.past THEN {} ELSE Named(q, type, q.se.i)
        any == Named(q, type, 1)
    IN  IF rest # {}
        THEN LET r == StartTag(q, At(type, Min(rest)))
             IN  IF r.st = "INVALID" THEN r
                 ELSE [r EXCEPT !.st = "ELEMENT", !.se = At(type, Min(rest))]
        ELSE IF any # {}
        THEN [StartTag(q, At(type, Min(any))) EXCEPT !.st = "ELEMENT", !.se = At(type, Min(any))]
        ELSE IF q.tok.k = "EMPTY" THEN [q EXCEPT !.need = TRUE]
        ELSE [q EXCEPT !.need = TRUE, !.st = "SKIP", !.depth = 1]

\* One round of the loop of xml_next.  p.past: the loop has skipped an element
\* and stays behind the last one of the sequence.
XmlRound(p) ==
    LET type == p.se.type
        rest == IF p.past THEN {} ELSE p.se.i..Len(Schema[type])
        attrs == {i \in rest : Schema[type][i].attr /\ Schema[type][i].name \in DOMAIN p.attrs}
        elements == {i \in rest : ~Schema[type][i].attr}
        q == ParseToken(p)
    IN  IF attrs # {} THEN [p EXCEPT !.st = "ELEMENT", !.se = At(type, Min(attrs))]
        ELSE IF p.empty
        THEN IF \E i \in elements : Schema[type][i].min # 0 THEN Invalid(p)
             ELSE [p EXCEPT !.st = "END"]
        ELSE IF p.stack = <<>> THEN [p EXCEPT !.st = "END"]
        ELSE IF q.tok = Incomplete THEN Wait(q)
        ELSE IF q.tok.k \in Tagged THEN XmlNextTag(q, type)
        ELSE IF q.tok.k = "TEXT" /\ elements # {} THEN Invalid(q)
        ELSE [q EXCEPT !.st = "END"]

XmlNext(p) == LET r == XmlRound(p)
              IN  [r EXCEPT !.past = ~r.wait /\ r.st \in {"NEXT", "SKIP"}]

\* Mutant: the first end tag ends the element.
XmlSkipFirst(p) ==
    LET q == XmlToken(p)
    IN  IF q.tok = Incomplete THEN Wait([q EXCEPT !.st = "NEXT", !.past = FALSE])
        ELSE [q EXCEPT !.st = IF q.tok.k = "END" THEN "NEXT" ELSE "SKIP"]

\* The loop of xml_skip_unknown, whose depth is lost when it returns.
XmlSkip(p) ==
    LET q == XmlToken(p)
        depth == CASE q.tok.k = "START" -> p.depth + 1
                   [] q.tok.k = "END"   -> p.depth - 1
                   [] OTHER -> p.depth
    IN  IF q.tok = Incomplete THEN Wait([q EXCEPT !.st = "NEXT", !.past = FALSE])
        ELSE [q EXCEPT !.depth = depth, !.st = IF depth = 0 THEN "NEXT" ELSE "SKIP"]

Put(p, path, s) == [p EXCEPT !.obj = (path :> s) @@ @]

XmlAttrValue(p) == Put(p, Child(p.base, Element(p.se).name, 1), p.attrs[Element(p.se).name])

XmlValue(p) ==
    LET q == ParseToken(p)
    IN  CASE q.tok.k = "TEXT" -> [Put(q, q.base, q.tok.name) EXCEPT !.need = TRUE, !.st = "END"]
          [] q.tok.k = "END"  -> [Put(q, q.base, "") EXCEPT !.st = "END"]
          [] OTHER -> Wait(q)

\* xml_end: the state "EE" stands for success
XmlEnd(p) ==
    LET q == ParseToken(p)
    IN  IF p.empty THEN [p EXCEPT !.empty = FALSE, !.st = "EE"]
        ELSE IF q.tok.k = "END" /\ q.tok.name = Element(Top(p.stack).se).name
        THEN [q EXCEPT !.need = TRUE, !.st = "EE"]
        ELSE Wait(q)

\* xml_sequence: the state "MORE" stands for another occurrence.  Where start_tag
\* has set PARSE_INVALID the state is still incremented, to one that is none.
XmlSequence(p) ==
    LET q == ParseToken(p)
        t == Top(p.stack)
        same == q.tok.k \in Tagged /\ q.tok.name = Element(t.se).name
        r == StartTag(q, t.se)
    IN  IF q.tok = Incomplete THEN Wait(q)
        ELSE IF q.tok.k = "TEXT" THEN Invalid(q)
        ELSE IF same /\ r.st # "INVALID" THEN [r EXCEPT !.st = "MORE"]
        ELSE IF t.count < Element(t.se).min THEN Invalid(q)
        ELSE [q EXCEPT !.st = IF same THEN "BEYOND" ELSE "SEQUENCE_END"]

\* parse_bits; -1 when what follows is not bits
ParseBits(p, n) ==
    LET bits == SubSeq(wire, p.pos + 1, p.pos + n)
    IN  IF Len(bits) = n /\ \A i \in 1..n : bits[i][1] = "bit"
        THEN FoldLeft(LAMBDA a, b : 2 * a + b[2], 0, bits) ELSE -1

\* exi_event: the Parser behind the event code of one of n events
ExiEventCode(p, n) ==
    LET code == ParseBits(p, BitCount(n))
    IN  IF code \in 0..(n - 1) THEN [p EXCEPT !.code = code, !.pos = @ + BitCount(n)]
        ELSE Invalid(p)

ExiStart(p) ==
    LET n == BitCount(Len(Types))
        q == [p EXCEPT !.pos = 1]                       \* exi_parse_header
        type == ParseBits(q, n)
    IN  IF avail = 0 THEN Wait(p)
        ELSE IF wire[1] = <<"header">> /\ type \in 0..(Len(Types) - 1)
        THEN [q EXCEPT !.pos = 1 + n, !.type = Types[type + 1], !.se = At(Types[type + 1], 0),
                       !.need = TRUE, !.st = "ELEMENT"]
        ELSE Invalid(p)

ExiNext(p) ==
    LET e == Element(p.se)
        q == IF p.need THEN ExiEventCode(p, IF e.min # 0 THEN 1 ELSE e.n) ELSE p
        se == Skip(p.se, q.code)
        more == Element(se).n # 0
    IN  IF e.n = 0 THEN [p EXCEPT !.st = "END"]
        ELSE IF q.st = "INVALID" THEN q
        ELSE [q EXCEPT !.se = se, !.need = more, !.st = IF more THEN "ELEMENT" ELSE "END"]

\* exi_parse_value into a path
ExiParseValue(p, path) ==
    LET e == Element(p.se)
        piece == wire[p.pos + 1]
        r == ExiParseString(p.tables, e.name, piece)
    IN  IF p.pos >= Len(wire) THEN Invalid(p)
        ELSE IF ~e.str /\ piece[1] = "number" THEN [Put(p, path, piece[2]) EXCEPT !.pos = @ + 1]
        ELSE IF e.str /\ piece[1] \in {"local", "global", "literal"} /\ r.s # "?"
        THEN [Put(p, path, r.s) EXCEPT !.pos = @ + 1, !.tables = r.tables]
        ELSE Invalid(p)

\* exi_parse_simple: EE is a second level code in place of an empty string
ExiValueIn(p) ==
    LET bit == ParseBits(p, 1)
        q == [p EXCEPT !.pos = @ + 1]
        r == IF bit = 0 THEN ExiParseValue(q, p.base)
             ELSE IF bit = 1 /\ ParseBits(q, 3) = 0
             THEN [Put(q, p.base, "") EXCEPT !.pos = @ + 3, !.need = FALSE]
             ELSE Invalid(p)
    IN  IF r.st = "INVALID" THEN r ELSE [r EXCEPT !.st = "END"]

ExiEnd(p) ==
    IF ~p.need THEN [p EXCEPT !.need = TRUE, !.st = "EE"]
    ELSE IF ParseBits(p, 1) = 0 THEN [p EXCEPT !.pos = @ + 1, !.st = "EE"]
    ELSE Invalid(p)

ExiSequence(p) ==
    LET t == Top(p.stack)
        e == Element(t.se)
        q == ExiEventCode(p, IF t.count >= e.min THEN e.n ELSE 1)
    IN  IF q.st = "INVALID" THEN q
        ELSE IF q.code = 0 THEN [q EXCEPT !.st = "MORE"]
        ELSE [q EXCEPT !.need = FALSE, !.code = @ - 1, !.st = "SEQUENCE_END"]

(***************************************************************************)
(* parse_doc.                                                              *)
(***************************************************************************)
Driver(xml(_), exi(_), p) == IF format = "xml" THEN xml(p) ELSE exi(p)

\* parse_element: an occurrence of an element begins at a path
Occurrence(p, se, path) ==
    IF Element(se).simple THEN [p EXCEPT !.base = path, !.st = "VALUE"]
    ELSE [Put(p, path, "-") EXCEPT !.base = path, !.se = First(se), !.st = "NEXT"]

\* push_element; the list of an unbounded element begins anew
ParseElement(p) ==
    LET e == Element(p.se)
        old == {path \in DOMAIN p.obj :
                  \E k \in 1..Cardinality(DOMAIN p.obj) : IsPrefix(Child(p.base, e.name, k), path)}
        obj == IF e.unbounded THEN [path \in DOMAIN p.obj \ old |-> p.obj[path]] ELSE p.obj
    IN  IF e.attr THEN [p EXCEPT !.st = "ATTRIBUTE"]
        ELSE Occurrence([p EXCEPT !.obj = obj,
                                  !.stack = Append(@, [se |-> p.se, base |-> p.base, count |-> 0])],
                        p.se, Child(p.base, e.name, 1))

ParseAttribute(p) ==
    LET q == Driver(XmlAttrValue, LAMBDA r : ExiParseValue(r, Child(r.base, Element(r.se).name, 1)), p)
    IN  IF q.st = "INVALID" THEN q ELSE [q EXCEPT !.st = "NEXT", !.se = Skip(@, 1)]

ParseEnd(p) ==
    LET q == Driver(XmlEnd, ExiEnd, p)
        e == Element(Top(p.stack).se)
        count == Top(p.stack).count + 1
    IN  IF p.stack = <<>> THEN [p EXCEPT !.st = "DONE"]
        ELSE IF q.st # "EE" THEN q
        ELSE [q EXCEPT !.stack[Len(p.stack)].count = count,
                       !.st = IF e.unbounded \/ count < e.max THEN "SEQUENCE" ELSE "SEQUENCE_END"]

ParseSequence(p) ==
    LET q == Driver(XmlSequence, ExiSequence, p)
        t == Top(p.stack)
    IN  IF q.st = "MORE"
        THEN Occurrence(q, t.se, Child(t.base, Element(t.se).name, t.count + 1))
        ELSE q

SequenceEnd(p) == [p EXCEPT !.se = Skip(Top(p.stack).se, 1), !.base = Top(p.stack).base,
                            !.stack = Front(@), !.st = "NEXT"]

\* A state without a case leaves the loop where it is.
ParseDoc(p) ==
    CASE p.st = "START"        -> Driver(XmlStart, ExiStart, p)
      [] p.st = "ELEMENT"      -> ParseElement(p)
      [] p.st = "NEXT"         -> Driver(XmlNext, ExiNext, p)
      [] p.st = "SKIP"         -> XmlSkip(p)
      [] p.st = "ATTRIBUTE"    -> ParseAttribute(p)
      [] p.st = "VALUE"        -> Driver(XmlValue, ExiValueIn, p)
      [] p.st = "END"          -> ParseEnd(p)
      [] p.st = "SEQUENCE"     -> ParseSequence(p)
      [] p.st = "SEQUENCE_END" -> SequenceEnd(p)
      [] p.st = "BEYOND"       -> p

(***************************************************************************)
(* Specification.                                                          *)
(***************************************************************************)
Parser == [st |-> "START", se |-> At(Types[1], 0), base |-> <<>>, stack |-> <<>>,
           tok |-> Incomplete, attrs |-> <<>>, need |-> TRUE, empty |-> FALSE, depth |-> 0,
           past |-> FALSE,
           code |-> 0, tables |-> NoTables, pos |-> 0, type |-> Types[1], obj |-> <<>>,
           wait |-> TRUE]

Output == [st |-> "START", se |-> At(Types[1], 0), base |-> <<>>, stack |-> <<>>,
           n |-> 0, code |-> 0, open |-> FALSE, tables |-> NoTables]

Init == /\ format \in Formats /\ object \in Objects
        /\ wire = IF format = "exi" THEN <<<<"header">>>> ELSE <<>>
        /\ marks = {} /\ out = Output
        /\ avail = 0 /\ chunks = 0 /\ in = Parser

\* More of the document arrives: http_rebuffer, parser_rebuffer.
Arrive ==
    /\ out.st = "COMPLETE" /\ in.wait /\ in.st # "INVALID"
    /\ \E n \in (avail + 1)..Len(wire) :
         /\ n = Len(wire) \/ (chunks + 1 < MaxChunk /\ format = "xml")
         /\ Whole => ~({n, n + 1} \subseteq marks)
         /\ avail' = n
    /\ chunks' = chunks + 1
    /\ in' = [in EXCEPT !.wait = FALSE]
    /\ UNCHANGED <<format, object, wire, marks, out>>

Parse ==
    /\ out.st = "COMPLETE" /\ ~in.wait /\ in.st \notin {"DONE", "INVALID"}
    /\ in' = ParseDoc(in)
    /\ UNCHANGED <<format, object, wire, marks, out, avail, chunks>>

Next == \/ OutputStart \/ OutputAttribute \/ OutputPush \/ OutputSimple \/ OutputComplex
        \/ OutputEnd \/ OutputForeign \/ Arrive \/ Parse

Spec == Init /\ [][Next]_vars

\* The writer is a loop, the document arrives, and parse_doc is a loop.
FairSpec == Spec /\ WF_vars(Next)

(***************************************************************************)
(* Properties.                                                             *)
(***************************************************************************)
\* "The parser converts an XML or EXI document into a C object" (parse.c): what
\* parse_doc returns for a document that output_doc wrote is the object that was
\* written, however the document was cut into segments, whatever optional parts
\* the object has, and with elements of other schemas in it; and the document has
\* been read to its end.  It holds of the objects whose list members have the same
\* attributes (not of MCMixed) and with foreign elements between different elements
\* (not with Between).
RoundTrip == in.st = "DONE" => /\ in.type = object.type /\ in.obj = object.val
                               /\ in.pos = Len(wire)

\* Every document is written to its end and then parsed to its end: neither the
\* writer nor the reader refuses it, and parse_doc does not go on waiting for more
\* of a document that is all there.
Parsed == <>(in.st = "DONE")
=============================================================================
