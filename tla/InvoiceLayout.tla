--------------------------- MODULE InvoiceLayout ---------------------------
(***************************************************************************)
(* The layout of an invoice's PDF: a header, the table of its lines, whose *)
(* heading is repeated on every page it spans, the totals, and a footer on *)
(* each page. A document is the boxes that are drawn, with their page and  *)
(* the part of the page they take, counted downward from its top.          *)
(*                                                                         *)
(* An invoice is [lines, header, taxed]: its lines in the order they are   *)
(* read in, each [lineNumber, height] with the height of its wrapped text, *)
(* the height of its header, and whether it has a tax row.                 *)
(***************************************************************************)
EXTENDS Integers, Sequences, FiniteSets

CONSTANTS
    PageHeight, Margin,
    FooterHeight,       \* kept free above the bottom margin
    NumberDrop,         \* of the page's number, below the edge of that margin
    NumberHeight,
    HeadingHeight,      \* of the row of column names, its rule included
    Gap,                \* between the table and the totals
    TotalHeight,        \* of one row of the totals
    Printed             \* the invoices to be printed, as they are read

PageBottom == PageHeight - Margin - FooterHeight

ASSUME LayoutAssumption ==
    /\ {PageHeight, Margin, FooterHeight, NumberDrop, NumberHeight, HeadingHeight, Gap, TotalHeight}
          \subseteq Nat \ {0}
    /\ PageBottom >= Margin + HeadingHeight + 3 * TotalHeight
    /\ NumberDrop + NumberHeight <= Margin

Line == [lineNumber : Nat, height : Nat \ {0}]

\* Line numbers are unique in an invoice, and the length of its names is limited: its
\* header and any of its rows fit a page with a heading.
ASSUME PrintedAssumption ==
    \A inv \in Printed :
        /\ inv.lines \in Seq(Line)
        /\ \A j, k \in DOMAIN inv.lines : inv.lines[j].lineNumber = inv.lines[k].lineNumber => j = k
        /\ \A k \in DOMAIN inv.lines : Margin + HeadingHeight + inv.lines[k].height <= PageBottom
        /\ inv.header \in Nat \ {0} /\ Margin + inv.header + HeadingHeight <= PageBottom

Box(what, page, top, height) == [what |-> what, page |-> page, top |-> top, bottom |-> top + height]

\* MUTANT: lines are drawn in the order they were read in.
InOrderRead(lines) == lines

\* `lines.sort` by lineNumber, of which each occurs once.
InOrder(lines) ==
    [n \in DOMAIN lines |->
        LET Before(l) == {k \in DOMAIN lines : lines[k].lineNumber < l.lineNumber}
        IN  lines[CHOOSE k \in DOMAIN lines : Cardinality(Before(lines[k])) = n - 1]]

\* MUTANT: a row is begun wherever the page is not yet full.
PlaceFitting(cursor, height, top) ==
    IF cursor.y < PageBottom THEN cursor ELSE [page |-> cursor.page + 1, y |-> top]

\* Where something is drawn: at the cursor, or on a new page if it would end below
\* the bottom.
Place(cursor, height, top) ==
    IF cursor.y + height <= PageBottom THEN cursor ELSE [page |-> cursor.page + 1, y |-> top]

\* Below the heading of a page that has nothing but the table.
Continued == Margin + HeadingHeight

\* The cursor after each of the first n lines, and where each line was placed.
Cursor(inv) ==
    LET lines == InOrder(inv.lines)
        cursor[n \in 0..Len(lines)] ==
            IF n = 0 THEN [page |-> 1, y |-> Margin + inv.header + HeadingHeight]
            ELSE LET place == Place(cursor[n - 1], lines[n].height, Continued)
                 IN  [place EXCEPT !.y = @ + lines[n].height]
    IN  cursor

Rows(inv) ==
    LET lines == InOrder(inv.lines)
    IN  [n \in DOMAIN lines |->
            LET after == Cursor(inv)[n]
            IN  Box(<<"line", lines[n].lineNumber>>, after.page, after.y - lines[n].height, lines[n].height)]

\* Pages have their table heading on top, the first one below the header.
Headings(inv) ==
    {Box(<<"heading">>, page, IF page = 1 THEN Margin + inv.header ELSE Margin, HeadingHeight) :
        page \in 1..Cursor(inv)[Len(inv.lines)].page}

\* Subtotal, tax unless its rate is zero, and total stay together.
Totals(inv) ==
    LET after == Cursor(inv)[Len(inv.lines)]
        labels == IF inv.taxed THEN <<"subtotal", "tax", "total">> ELSE <<"subtotal", "total">>
        place == Place([after EXCEPT !.y = @ + Gap], Len(labels) * TotalHeight, Margin)
    IN  [n \in DOMAIN labels |->
            Box(<<labels[n]>>, place.page, place.y + (n - 1) * TotalHeight, TotalHeight)]

\* "Page X of Y" in the bottom margin, once the number of pages is known.
Footers(boxes) ==
    LET count == CHOOSE p \in {b.page : b \in boxes} : \A b \in boxes : b.page <= p
    IN  {Box(<<"page", page, count>>, page, PageHeight - Margin + NumberDrop, NumberHeight) :
            page \in 1..count}

Drawn(f) == {f[n] : n \in DOMAIN f}

RenderInvoicePdf(inv) ==
    LET boxes == {Box(<<"header">>, 1, Margin, inv.header)} \cup Headings(inv)
                     \cup Drawn(Rows(inv)) \cup Drawn(Totals(inv))
    IN  boxes \cup Footers(boxes)

-----------------------------------------------------------------------------
(***************************************************************************)
(* What a document has to be.                                              *)
(***************************************************************************)
\* Reading goes down a page and on to the next.
ReadBefore(a, b) == a.page < b.page \/ (a.page = b.page /\ a.bottom <= b.top)

\* Boxes lie within the margins of their page, but for its number, and none over another.
WellPlaced(boxes) ==
    /\ \A b \in boxes :
          /\ Margin <= b.top
          /\ b.bottom <= IF b.what[1] = "page" THEN PageHeight ELSE PageHeight - Margin
    /\ \A a, b \in boxes : a = b \/ ReadBefore(a, b) \/ ReadBefore(b, a)

\* The one box of a label.
HasEach(boxes, labels) ==
    \A what \in labels : Cardinality({b \in boxes : b.what = what}) = 1

The(boxes, what) == CHOOSE b \in boxes : b.what = what

\* Each line once, in the order of their numbers, under a heading of its page and
\* before the totals, which are on one page and end with the total.
InReadingOrder(boxes, inv) ==
    LET lines == {<<"line", inv.lines[k].lineNumber>> : k \in DOMAIN inv.lines}
        sums == {<<"subtotal">>, <<"total">>} \cup (IF inv.taxed THEN {<<"tax">>} ELSE {})
        total == The(boxes, <<"total">>)
    IN  /\ HasEach(boxes, lines \cup sums \cup {<<"header">>})
        /\ \A m, n \in lines : m[2] < n[2] => ReadBefore(The(boxes, m), The(boxes, n))
        /\ \A n \in lines :
              /\ ReadBefore(The(boxes, n), The(boxes, <<"subtotal">>))
              /\ \E h \in boxes : /\ h.what = <<"heading">> /\ h.page = The(boxes, n).page
                                  /\ ReadBefore(h, The(boxes, n))
        /\ \A s \in sums \ {<<"total">>} :
              The(boxes, s).page = total.page /\ ReadBefore(The(boxes, s), total)

\* Every page says its number, and how many there are, and has something else.
Numbered(boxes) ==
    LET pages == {b.page : b \in boxes}
        count == Cardinality(pages)
    IN  /\ pages = 1..count
        /\ HasEach(boxes, {<<"page", page, count>> : page \in pages})
        /\ \A page \in pages : \E b \in boxes : b.page = page /\ b.bottom <= PageBottom

Readable(inv) ==
    LET boxes == RenderInvoicePdf(inv)
    IN  WellPlaced(boxes) /\ InReadingOrder(boxes, inv) /\ Numbered(boxes)

Unreadable == {inv \in Printed : ~Readable(inv)}
=============================================================================
