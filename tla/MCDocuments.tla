----------------------------- MODULE MCDocuments -----------------------------
(***************************************************************************)
(* Official lists of prices in every form the extractors read, and indexes of     *)
(* publications for the discovery adapters.                                         *)
(***************************************************************************)
EXTENDS Rules, TLC

-----------------------------------------------------------------------------
(* Texts: two brands, one of which contains a word of the headers, two products. *)

Brands == {"ab", "marquesa"}
Labelled == {"p", "q"}
Nothing == [price |-> None, pack |-> None, split |-> None, keyword |-> FALSE, maker |-> None,
            supplier |-> FALSE, repeat |-> FALSE, unchanged |-> FALSE, homologation |-> None,
            effective |-> None, name |-> None, packaging |-> None]
Joined == [b \in Brands, p \in Labelled |-> b \o " - " \o p]
Maker == [b \in Brands |-> "FABRICANT : " \o b]
Packed == [p \in Labelled |-> p \o ", en 5 cigares"]
Date == "Arrete du 1, applicable au 2"
TextsRead ==
    ("ab" :> Nothing) @@ ("marquesa" :> [Nothing EXCEPT !.keyword = TRUE])
    @@ ("p" :> Nothing) @@ ("q" :> Nothing) @@ ("" :> Nothing) @@ ("cigares" :> Nothing)
    @@ ("marque" :> [Nothing EXCEPT !.keyword = TRUE]) @@ ("prix" :> [Nothing EXCEPT !.keyword = TRUE])
    @@ ("designation" :> [Nothing EXCEPT !.keyword = TRUE])
    @@ ("10" :> [Nothing EXCEPT !.price = 10]) @@ ("20" :> [Nothing EXCEPT !.price = 20])
    @@ ("sans changement" :> [Nothing EXCEPT !.unchanged = TRUE])
    @@ (Date :> [Nothing EXCEPT !.homologation = 1, !.effective = 2])
    @@ ("FOURNISSEUR" :> [Nothing EXCEPT !.supplier = TRUE])
    @@ ("REFERENCE" :> [Nothing EXCEPT !.repeat = TRUE])
    @@ [t \in {Joined[b, p] : b \in Brands, p \in Labelled} |->
          LET x == CHOOSE x \in Brands \X Labelled : Joined[x[1], x[2]] = t
          IN [Nothing EXCEPT !.split = x, !.keyword = x[1] = "marquesa"]]
    @@ [t \in {Maker[b] : b \in Brands} |->
          [Nothing EXCEPT !.maker = CHOOSE b \in Brands : Maker[b] = t]]
    @@ [t \in {Packed[p] : p \in Labelled} |->
          [Nothing EXCEPT !.name = CHOOSE p \in Labelled : Packed[p] = t,
                          !.packaging = "en 5 cigares", !.pack = 5]]

-----------------------------------------------------------------------------
(* Lists of at most three articles, one product of which comes at two prices, and  *)
(* the forms they are published in.                                                *)

Announced(brand, product, price) ==
    [brand |-> brand, product |-> product, price |-> price, former |-> "20",
     joined |-> Joined[brand, product], packed |-> Packed[product], maker |-> Maker[brand]]
Priced == {Announced(b, "p", price) : b \in Brands, price \in {"10", "20"}}
          \union {Announced(b, "q", "10") : b \in Brands}
OfficialLists == {s \in UNION {[1..n -> Priced] : n \in 0..3} :
            \A i, j \in DOMAIN s : i # j => <<s[i].brand, s[i].product>> # <<s[j].brand, s[j].product>>}

\* The brand has a column of its own or not.
Column(label, role) == [label |-> label, role |-> role]
Layouts == { <<Column("designation", "product"), Column("prix", "price")>>,
             <<Column("prix", "price"), Column("marque", "brand"), Column("designation", "product")>> }

\* A list is cut in two, and the second part has a section of its own; the first
\* prices stay.  Only tables have a layout.
Cut(list, cut) == <<SubSeq(list, 1, cut), SubSeq(list, cut + 1, Len(list))>>
Document(form, list, cut, header, columns) ==
    [kind |-> "document", form |-> form, date |-> Date, parts |-> Cut(list, cut), header |-> header,
     columns |-> columns, nested |-> {2}, unchanged |-> 1..cut, served |-> cut = 0, cid |-> "cid"]
ListsAndCuts == {x \in OfficialLists \X (0..3) : x[2] <= Len(x[1])}
DocumentsRead ==
    {Document(f, x[1], x[2], h, c) :
        f \in {f \in Forms : f[2] = "html"}, x \in ListsAndCuts, h \in {"th", "td"}, c \in Layouts}
    \union {Document(f, x[1], x[2], "th", c) :
        f \in {f \in Forms : f[2] = "json"}, x \in ListsAndCuts, c \in Layouts}
    \union {Document(f, x[1], x[2], "th", c) :
        f \in {f \in Forms : f[2] \in {"pdf", "ods"}}, x \in ListsAndCuts,
        c \in {c \in Layouts : Len(c) = 3}}

-----------------------------------------------------------------------------
(* Indexes: the results of a search, links and texts of a page, links to files.  *)

SeqUpTo(S, n) == UNION {[1..k -> S] : k \in 0..n}

\* Two acts on the topic, one of which has no number of its own, and another act.
Found == {[nor |-> "n1", cid |-> "c1"], [nor |-> None, cid |-> "c2"], [nor |-> "n3", cid |-> "c3"]}
Item(x) == [nor |-> x.nor, cid |-> x.cid, nature |-> "arrete", titled |-> TRUE,
            onTopic |-> x.cid # "c3", published |-> 1, effective |-> None]

Start == 3
Lifetime == 6
Caches == {None} \union {[until |-> t, ends |-> t + Margin] : t \in {Start, Start + 1}}

\* The API shows another act to whoever asks without a query.
Api(results, delay) ==
    [results |-> [i \in 1..Len(results) |-> Item(results[i])],
     unasked |-> << Item([nor |-> "n3", cid |-> "c3"]) >>, delay |-> delay, lifetime |-> Lifetime]

\* A link stands in a heading, which only has a title, in an item with the dates.
Around == << [telling |-> FALSE, length |-> 9, published |-> None, effective |-> None],
             [telling |-> TRUE, length |-> 20, published |-> 1, effective |-> 2] >>
JorfPage(links, texts) ==
    [links |-> [i \in 1..Len(links) |-> [nor |-> links[i].nor, href |-> links[i].href, around |-> Around]],
     texts |-> [i \in 1..Len(texts) |-> [nors |-> texts[i], published |-> None, effective |-> None]]]

Scan(form, page, config, cache) ==
    [kind |-> "scan", form |-> form, page |-> page, config |-> config, cache |-> cache, start |-> Start]
SearchScans ==
    {Scan("legifrance-dila", Api(r, d), [size |-> 2, pages |-> n, nature |-> "arrete"], c) :
        r \in SeqUpTo(Found, 5), n \in {1, 3}, d \in 0..2, c \in Caches}
PageScans ==
    {Scan("legifrance-jorf", JorfPage(l, t), <<>>, None) :
        l \in SeqUpTo([nor : {"n1", "n2", None}, href : {"h1", "h2"}], 2),
        t \in SeqUpTo(SeqUpTo({"n1", "n2"}, 2), 2)}
    \union {Scan("douane-opendata", [links |-> l], [extension |-> None], None) :
        l \in SeqUpTo([extension : {"ods", "pdf"}, day : {1, 2, None}, href : {"h1", "h2"}, folder : {None}], 2)}
    \union {Scan("generic-html-index", [items |-> l], [selector |-> "li", mime |-> None], None) :
        l \in SeqUpTo([href : {"h1", "h2", None}, reference : {"n1", None}, date : {None}], 2)}
ScansRead == SearchScans \union PageScans
=============================================================================
