----------------------------- MODULE PriceLists ------------------------------
(***************************************************************************)
(* An official list of prices and the documents it is published in: tables of an *)
(* HTML page, articles of a JSON tree, pages of a PDF, rows of a spreadsheet.       *)
(* An article of the list is a record of its texts: brand, product, both joined     *)
(* or with the packaging, the line of the maker, the new price and the former one.   *)
(***************************************************************************)
EXTENDS CustomsDocuments

CONSTANT Documents   \* lists in parts, each with its form and layout

Forms == {<<"legifrance-html", "html">>, <<"ofdf-generic", "html">>, <<"ofdf-generic", "pdf">>,
          <<"pdf-table", "pdf">>, <<"legifrance-dila-json", "json">>, <<"douane-ods", "ods">>}
TypeOf(q) == q.form[2]

-----------------------------------------------------------------------------
(* Tables.  A column has a label and tells one thing of an article; the brand has *)
(* a column of its own or stands before the product.                               *)

HasColumn(q, role) == \E i \in 1..Len(q.columns) : q.columns[i].role = role
CellText(q, item, role) ==
    IF role = "product" /\ ~HasColumn(q, "brand") THEN item.joined ELSE item[role]
Cells(q, item) == [i \in 1..Len(q.columns) |-> CellText(q, item, q.columns[i].role)]
Heads(q) == [i \in 1..Len(q.columns) |-> q.columns[i].label]

TableRow(th, td) == [th |-> th, td |-> td]
HeadRow(q) == IF q.header = "th" THEN TableRow(Heads(q), <<>>) ELSE TableRow(<<>>, Heads(q))
TableOf(q, part) ==
    [i \in 1..Len(part) + 1 |-> IF i = 1 THEN HeadRow(q) ELSE TableRow(<<>>, Cells(q, part[i - 1]))]

\* Each part of a list stands under its date.
Blocks(q, part) ==
    << [text |-> q.date, table |-> <<>>], [text |-> Empty, table |-> TableOf(q, part)] >>
Html(q) == FlattenSeq([k \in 1..Len(q.parts) |-> Blocks(q, q.parts[k])])

\* Each part is an article of the tree, some of them in a section of their own; the
\* tree is the document, or what the API answers.
Node(article, html, below) ==
    [article |-> article, html |-> html, contenu |-> None, texte |-> None, below |-> below]
ArticleOf(q, k) == Node(TRUE, Blocks(q, q.parts[k]), <<>>)
Sections(q) ==
    [k \in 1..Len(q.parts) |->
        IF k \in q.nested THEN Node(FALSE, None, <<ArticleOf(q, k)>>) ELSE ArticleOf(q, k)]
Tree(q) == Node(FALSE, None, Sections(q))
Nodes(q) == {Tree(q)} \union Range(Sections(q)) \union {ArticleOf(q, k) : k \in 1..Len(q.parts)}
Json(q) == IF q.served THEN None ELSE Tree(q)
ApiAnswers(q) == [c \in {q.cid} |-> Tree(q)]

\* Each part has a page and a table of its own.
PdfTableOf(q, part) == [i \in 1..Len(part) + 1 |-> IF i = 1 THEN Heads(q) ELSE Cells(q, part[i - 1])]
PdfPages(q) ==
    [k \in 1..Len(q.parts) |-> [texts |-> <<q.date>>, tables |-> <<PdfTableOf(q, q.parts[k])>>]]

-----------------------------------------------------------------------------
(* A spreadsheet, in which each article stands under its maker, and twice; it has *)
(* a new price, or the former one stays.  Blank cells are repeated.                *)

Whole(q) == FlattenSeq(q.parts)

OneCell(text) == [text |-> text, repeat |-> 1]
Filled(text) == << OneCell(text), [text |-> Empty, repeat |-> 300], [text |-> Empty, repeat |-> 14] >>
Preface(q) == << Filled(q.date), Filled("FOURNISSEUR"), << [text |-> Empty, repeat |-> 300] >> >>
ArticleRow(q, i) ==
    LET item == Whole(q)[i] IN
    << OneCell(Empty), OneCell(item.packed), OneCell(Empty),
       OneCell(IF i \in q.unchanged THEN item.price ELSE item.former), OneCell(Empty),
       OneCell(IF i \in q.unchanged THEN "sans changement" ELSE item.price) >>
RowsOfArticle(q, i) ==
    << Filled(Whole(q)[i].maker), Filled("REFERENCE"), Filled("cigares"),
       ArticleRow(q, i), ArticleRow(q, i) >>
Sheet(q) == Preface(q) \o FlattenSeq([i \in 1..Len(Whole(q)) |-> RowsOfArticle(q, i)])

-----------------------------------------------------------------------------
(* What the patterns of the code find in the texts.                           *)

RolesOf(q) == IF TypeOf(q) = "pdf" THEN PdfRoles ELSE HtmlRoles

\* A table tells products and prices, a PDF brands as well, and each label one role.
IsLayout(q) ==
    /\ IsList(q.columns)
    /\ HasColumn(q, "product") /\ HasColumn(q, "price")
    /\ TypeOf(q) = "pdf" => HasColumn(q, "brand")
    /\ \A i \in 1..Len(q.columns) : \A r \in DOMAIN RolesOf(q) :
          q.columns[i].label \in RolesOf(q)[r] <=> q.columns[i].role = r
    /\ q.header = "th" \/ \E i \in 1..Len(q.columns) : Reading[q.columns[i].label].keyword
IsInTable(item) ==
    /\ Reading[item.joined].split # None
    /\ Reading[item.joined].split[1] = item.brand /\ Reading[item.joined].split[2] = item.product

IsNoMaker(text) == Reading[text].maker = None /\ ~Reading[text].supplier
IsInSheet(item) ==
    /\ Reading[item.maker].maker = item.brand /\ ~Reading[item.maker].supplier
    /\ Reading[item.packed].name = item.product
    /\ ~Reading[item.price].unchanged
    /\ Empty \notin {item.maker, item.packed, item.price}
IsSheet(q) ==
    /\ IsNoMaker(q.date) /\ q.date # Empty
    /\ \A k \in 1..Len(q.parts) : \A i \in 1..Len(q.parts[k]) : IsInSheet(q.parts[k][i])
    /\ \A i, j \in 1..Len(Whole(q)) :
          i # j => <<Whole(q)[i].brand, Whole(q)[i].product>> # <<Whole(q)[j].brand, Whole(q)[j].product>>

ASSUME DocumentsArePublished ==
    /\ Preamble \in Nat \ {0}
    /\ Reading["FOURNISSEUR"].supplier /\ Reading["sans changement"].unchanged
    /\ IsNoMaker(Empty) /\ IsNoMaker("REFERENCE") /\ IsNoMaker("cigares")
    /\ Reading["REFERENCE"].repeat /\ ~Reading["cigares"].repeat
    /\ \A q \in Documents :
          /\ q.kind = "document" /\ q.form \in Forms /\ q.header \in {"th", "td"} /\ q.cid # None
          /\ None \notin {Reading[q.date].homologation, Reading[q.date].effective}
          /\ IsList(q.parts) /\ None \notin Seq(Nodes(q))
          /\ \A k \in 1..Len(q.parts) :
                /\ IsList(q.parts[k]) /\ Blocks(q, q.parts[k]) # None
                /\ \A i \in 1..Len(q.parts[k]) :
                      LET item == q.parts[k][i] IN
                      /\ Reading[item.price].price \in Nat /\ Reading[item.price].price # None
                      /\ None \notin {item.brand, item.product}
                      /\ Empty \notin {item.brand, item.product, item.joined}
                      /\ IsInTable(item)
          /\ IF TypeOf(q) = "ods" THEN IsSheet(q) ELSE IsLayout(q)

-----------------------------------------------------------------------------
\* The list that a document announces; the articles of a tree are read from the
\* last on.
ListOf(q) == FlattenSeq(IF TypeOf(q) = "json" THEN Reverse(q.parts) ELSE q.parts)
=============================================================================
