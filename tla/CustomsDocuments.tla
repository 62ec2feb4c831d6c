-------------------------- MODULE CustomsDocuments ---------------------------
(***************************************************************************)
(* The extractors: from an official document in one of its forms to the price    *)
(* entries it announces.  A text is a value, and Reading says what the patterns     *)
(* of the code find in it; labels of a header are lower case, without accents and    *)
(* without what stands in brackets.  A document is a sequence of blocks of text       *)
(* and tables, a PDF a sequence of pages, a spreadsheet a sequence of rows.             *)
(***************************************************************************)
EXTENDS Optional

CONSTANTS
    Reading,      \* [texts -> record]: price (parse_price), pack (a number of pieces),
                  \* split (<<brand, product>>), keyword (a word of the headers occurs),
                  \* maker, supplier, repeat (FABRICANT, FOURNISSEUR, REFERENCE),
                  \* unchanged ("sans", "id."), homologation and effective (dates),
                  \* name and packaging (what stands before and after ", en 10 cigares")
    Preamble      \* number of blocks in which the dates are looked for

Empty == ""

-----------------------------------------------------------------------------
(* Tables with a header: the columns are told by their labels.                *)

\* _HEADER_MAP
HtmlRoles ==
    [brand |-> {"marque", "fabricant"},
     product |-> {"produit", "designation", "denomination"},
     packaging |-> {"conditionnement", "packaging", "presentation"},
     price |-> {"prix", "prix de vente", "prix unitaire", "tarif", "pvd"},
     tax |-> {"classe", "classe fiscale"}]
PdfRoles ==
    [brand |-> {"marque", "fabricant"},
     product |-> {"produit", "designation"},
     packaging |-> {"conditionnement", "packaging"},
     price |-> {"prix", "prix de vente", "tarif"}]

\* The first cell of each role.
ColumnsFromCells(cells, roles) ==
    LET at(r) == {i \in 1..Len(cells) : cells[i] \in roles[r]} IN
    [r \in {r \in DOMAIN roles : at(r) # {}} |-> CHOOSE i \in at(r) : \A j \in at(r) : i <= j]

\* A row of an HTML table has th and td cells; the header is the first row with a
\* th, or the first whose td cells name a price.
DetectColumns(table) ==
    LET named == {i \in 1..Len(table) :
                    \/ table[i].th # <<>>
                    \/ "price" \in DOMAIN ColumnsFromCells(table[i].td, HtmlRoles)}
        header == FirstPicked(table, named)
    IN IF named = {} THEN <<>>
       ELSE ColumnsFromCells(IF header.th # <<>> THEN header.th ELSE header.td, HtmlRoles)

LooksLikeHeader(row) == \E i \in 1..Len(row.td) : Reading[row.td[i]].keyword

\* Mutation: every row that looks like a header is left out.
DataRowsWithoutHeaders(table) ==
    Picked(table, {i \in 1..Len(table) :
                     table[i].td # <<>> /\ table[i].th = <<>> /\ ~LooksLikeHeader(table[i])})

\* The rows with data: the first row that looks like a header is left out, a later
\* one is data.
DataRows(table) ==
    LET headers == {i \in 1..Len(table) : table[i].th # <<>> \/ LooksLikeHeader(table[i])}
        isFirst(i) == i \in headers /\ \A j \in headers : i <= j
    IN Picked(table, {i \in 1..Len(table) : table[i].td # <<>> /\ ~isFirst(i)})

IsPriceTable(columns) == {"price", "product"} \subseteq DOMAIN columns

\* A row that is too short, or without a product or a price, has no entry.
HasEntry(cells, columns) ==
    /\ \A r \in DOMAIN columns : columns[r] <= Len(cells)
    /\ cells[columns["product"]] # Empty
    /\ Reading[cells[columns["price"]]].price # None

CellOf(cells, columns, role) ==
    IF role \in DOMAIN columns /\ cells[columns[role]] # Empty THEN cells[columns[role]] ELSE None

\* legifrance_html._build_extraction: a brand that has no cell of its own may stand
\* before the product; a negative price is none.
HasHtmlEntry(cells, columns) ==
    HasEntry(cells, columns) /\ Reading[cells[columns["price"]]].price >= 0
HtmlEntry(cells, columns, dates) ==
    LET product == cells[columns["product"]]
        split == IF CellOf(cells, columns, "brand") = None THEN Reading[product].split ELSE None
        packaging == CellOf(cells, columns, "packaging")
    IN [brand |-> IF split # None THEN split[1]
                  ELSE Or(CellOf(cells, columns, "brand"), "unknown"),
        product |-> IF split # None THEN split[2] ELSE product,
        packaging |-> packaging,
        price |-> Reading[cells[columns["price"]]].price,
        pack |-> IF packaging = None THEN None ELSE Reading[packaging].pack,
        tax |-> CellOf(cells, columns, "tax"),
        dates |-> dates]

\* pdf_table_extractor._build_extraction
PdfEntry(cells, columns, dates) ==
    [brand |-> Or(CellOf(cells, columns, "brand"), "unknown"),
     product |-> cells[columns["product"]],
     packaging |-> CellOf(cells, columns, "packaging"),
     price |-> Reading[cells[columns["price"]]].price,
     pack |-> None, tax |-> None,
     dates |-> dates]

\* The first date of each kind in some texts; a document in force since its
\* homologation need not say so.
FirstDates(texts) ==
    LET first(dates) == FirstPicked(dates, {i \in 1..Len(dates) : dates[i] # None})
        homologation == first([i \in 1..Len(texts) |-> Reading[texts[i]].homologation])
        effective == first([i \in 1..Len(texts) |-> Reading[texts[i]].effective])
    IN [homologation |-> homologation, effective |-> Or(effective, homologation)]

-----------------------------------------------------------------------------
(* legifrance-html                                                          *)

\* Blocks are [text |-> ..., table |-> ...], a table is <<>> where there is none.
HtmlTable(table, dates) ==
    LET columns == DetectColumns(table)
        data == DataRows(table)
        rows == Picked(data, {i \in 1..Len(data) : HasHtmlEntry(data[i].td, columns)})
    IN IF ~IsPriceTable(columns) THEN <<>>
       ELSE [i \in 1..Len(rows) |-> HtmlEntry(rows[i].td, columns, dates)]

LegifranceHtml(blocks) ==
    LET preamble == IF Len(blocks) <= Preamble THEN blocks ELSE SubSeq(blocks, 1, Preamble)
        dates == FirstDates([i \in 1..Len(preamble) |-> preamble[i].text])
    IN FlattenSeq([i \in 1..Len(blocks) |-> HtmlTable(blocks[i].table, dates)])

-----------------------------------------------------------------------------
(* legifrance-dila-json: a tree of nodes [article, html, contenu, texte, below]. *)

\* extract: bytes that are not a JSON object (None) make it ask the API for the
\* text of the configured number itself.
Candidates(payload, configured, published) ==
    IF payload # None THEN <<payload>>
    ELSE IF configured = None THEN <<>> ELSE <<published[configured]>>

\* _iter_articles takes the last candidate: an article has the key texteHtml or
\* contenu, texte alone makes none; what is below it are candidates.
ArticlesOf(node) == IF node.article THEN <<node>> ELSE <<>>
NextCandidates(candidates) == Front(candidates) \o Last(candidates).below

\* _extract_from_payload: of each article the first of its texts that is not empty.
FromArticles(articles) ==
    LET text(a) == Or(Or(a.html, a.contenu), Or(a.texte, <<>>))
    IN LegifranceHtml(FlattenSeq([i \in 1..Len(articles) |-> text(articles[i])]))

-----------------------------------------------------------------------------
(* pdf-table and ofdf-generic                                               *)

\* extract: each table of each page needs a header of its own.
PdfRows(table, dates) ==
    LET columns == ColumnsFromCells(table[1], PdfRoles)
        rows == Picked(table, {i \in 2..Len(table) : HasEntry(table[i], columns)})
    IN IF table = <<>> \/ ~IsPriceTable(columns) THEN <<>>
       ELSE [i \in 1..Len(rows) |-> PdfEntry(rows[i], columns, dates)]
PdfTable(pages) ==
    LET dates == FirstDates(IF pages = <<>> THEN <<>> ELSE pages[1].texts)
        tables == FlattenSeq([i \in 1..Len(pages) |-> pages[i].tables])
    IN FlattenSeq([i \in 1..Len(tables) |-> PdfRows(tables[i], dates)])

OfdfGeneric(mime, document) ==
    IF mime = "pdf" THEN PdfTable(document) ELSE LegifranceHtml(document)

-----------------------------------------------------------------------------
(* douane-ods: a spreadsheet whose rows speak in turn of a date, a supplier, a  *)
(* maker, a category or a product.                                              *)

MaxColumns == 16
MaxRepeat == 256

\* _row_cells: a cell stands for as many columns as it is repeated, padding apart.
RowCells(cells) ==
    LET times(c) == IF c.repeat > MaxRepeat THEN 1 ELSE c.repeat
        row == FlattenSeq([i \in 1..Len(cells) |-> [j \in 1..times(cells[i]) |-> cells[i].text]])
    IN IF Len(row) <= MaxColumns THEN row ELSE SubSeq(row, 1, MaxColumns)

\* _select_price: the new price of the pack (the sixth column), else the old one.
SelectPrice(row) ==
    LET price(i) ==
            IF i > Len(row) THEN None
            ELSE IF row[i] = Empty \/ Reading[row[i]].unchanged THEN None
            ELSE Reading[row[i]].price
    IN Or(price(6), price(4))

\* What a row is.
Alone(row) == \A i \in 2..6 : i <= Len(row) => row[i] = Empty
IsBlank(row) == row = <<>> \/ (row[1] = Empty /\ Alone(row))
Label(row) == IF Len(row) > 1 /\ row[2] # Empty THEN row[2] ELSE row[1]

\* The product of a row under a maker; packaging and pack are cut off its label.
OdsEntry(row, s) ==
    LET label == Reading[Label(row)] IN
    [brand |-> s.maker, product |-> Or(label.name, Label(row)), packaging |-> label.packaging,
     price |-> SelectPrice(row), pack |-> label.pack, tax |-> s.category,
     dates |-> [homologation |-> s.homologation, effective |-> s.effective]]
SameKey(e, f) == e.brand = f.brand /\ e.product = f.product /\ e.packaging = f.packaging

\* extract: one row after the other; a product that was seen before is left out.
OdsRow(s, row) ==
    LET first == Reading[row[1]]
        dated == [s EXCEPT !.homologation = Or(@, first.homologation),
                           !.effective = Or(@, first.effective)]
        entry == OdsEntry(row, dated)
    IN IF IsBlank(row) THEN s
       ELSE IF first.supplier THEN dated
       ELSE IF first.maker # None THEN [dated EXCEPT !.maker = first.maker, !.category = None]
       ELSE IF row[1] # Empty /\ Alone(row)
            THEN IF first.repeat THEN dated ELSE [dated EXCEPT !.category = row[1]]
       ELSE IF entry.price = None \/ s.maker = None
               \/ \E i \in 1..Len(s.out) : SameKey(s.out[i], entry)
            THEN dated
       ELSE [dated EXCEPT !.out = Append(@, entry)]

NothingRead ==
    [maker |-> None, category |-> None, homologation |-> None, effective |-> None, out |-> <<>>]
DouaneOds(sheet) ==
    LET after[n \in 0..Len(sheet)] ==
            IF n = 0 THEN NothingRead ELSE OdsRow(after[n - 1], RowCells(sheet[n]))
    IN after[Len(sheet)].out

-----------------------------------------------------------------------------
\* CustomsRegistry: the extractor that a source names, but the one that walks a
\* tree; a name that no extractor has is an error.
Extract(name, mime, document) ==
    CASE name = "legifrance-html" -> LegifranceHtml(document)
      [] name = "pdf-table" -> PdfTable(document)
      [] name = "ofdf-generic" -> OfdfGeneric(mime, document)
      [] name = "douane-ods" -> DouaneOds(document)
=============================================================================
