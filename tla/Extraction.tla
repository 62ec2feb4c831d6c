----------------------------- MODULE Extraction -----------------------------
(***************************************************************************)
(* From a merchant's product page to the catalogue: what the two parsers read,  *)
(* and how a cigar, its blend and its line are made of it.  A page is a record    *)
(* of what its HTML shows; a text is a sequence of words; a weight is in           *)
(* hundredths of a gram, the resolution the catalogue stores.                        *)
(***************************************************************************)
EXTENDS FiniteSets, Optional

CONSTANTS
    IsoOf,       \* function from the country labels that are known to their codes
    Formats      \* sequence of <<words, category>>: the alias table, in its order

-----------------------------------------------------------------------------
(* The registry.                                                            *)

\* A host is its labels from the top-level domain down; the registry is
\* looked up by suffix, so that www. and other subdomains pick the same parser.
Merchants == {<<"com", "mistercigar">>, <<"ch", "cigarpassion">>}
MerchantOf(host) ==
    LET known == {m \in Merchants : IsPrefix(m, host)} IN
    IF known = {} THEN None ELSE CHOOSE m \in known : TRUE

-----------------------------------------------------------------------------
(* The parsers.  Both merchants run the same shop software, whose table of       *)
(* attributes has the same labels, and say the rest in JSON-LD.                    *)

\* The attribute table: a row counts when it has a label and a value, and a
\* later row of the same label replaces an earlier one.
Attribute(page, label) ==
    LET at == {i \in 1..Len(page.rows) : page.rows[i].label = label /\ page.rows[i].value # None} IN
    IF at = {} THEN None ELSE page.rows[CHOOSE i \in at : \A j \in at : j <= i].value

\* The first Product among the nodes of the page's scripts; one that is not JSON
\* (None) is passed over, and a @graph comes after the node that wraps it.
JsonLd(scripts) ==
    LET nodes(script) ==
            IF script = None THEN <<>>
            ELSE script.nodes \o (IF script.graph = None THEN <<>> ELSE script.graph)
        all == FlattenSeq([i \in 1..Len(scripts) |-> nodes(scripts[i])])
    IN FirstPicked(all, {i \in 1..Len(all) : all[i].type = "Product"})

\* An image is a URL, a list whose first element counts if it is a URL, or a node
\* with a url or an @id.
CoerceImage(image) ==
    IF image = None THEN None
    ELSE CASE image.kind = "url" -> image.url
           [] image.kind = "node" -> Or(image.url, image.id)
           [] image.kind = "list" ->
                LET head == FirstOf(image.items) IN
                IF head # None /\ head.kind = "url" THEN head.url ELSE None

\* The offer; the price of its specification comes before its own, and a
\* specification price of zero does not.
Offer(product) ==
    LET offer == IF product = None THEN None ELSE FirstOf(product.offers)
        spec == IF offer = None THEN None ELSE FirstOf(offer.spec)
    IN IF offer = None THEN [amount |-> None, currency |-> None]
       ELSE IF spec = None THEN [amount |-> offer.amount, currency |-> offer.currency]
       ELSE [amount |-> IF spec.amount \in {None, 0} THEN offer.amount ELSE spec.amount,
             currency |-> Or(spec.currency, offer.currency)]

\* The leaves; the filler text is cut at commas, semicolons and slashes.
Leaves(page) ==
    LET filler == Or(Attribute(page, "Tripe(s)"), Attribute(page, "Tripe")) IN
    [wrapper |-> Attribute(page, "Feuille de cape"),
     binder |-> Or(Attribute(page, "Sous-cape(s)"), Attribute(page, "Sous-cape")),
     fillers |-> IF filler = None THEN <<>> ELSE filler]

\* "0.25 kg" and "250 g" are the same weight; anything else is none.
Weight(page) ==
    LET w == Attribute(page, "Poids") IN
    IF w = None THEN None
    ELSE CASE w.unit = "g" -> w.amount [] w.unit = "kg" -> 1000 * w.amount [] OTHER -> None

\* The Packing attribute, or the "(N)" at the end of the title.
PackSize(page) == Or(Attribute(page, "Packing"), page.title.pack)

\* mistercigar shows the strength as bullets, none of them meaning unknown.
ParseStrengthBullets(bullets) == IF bullets \in {None, 0} THEN None ELSE bullets

\* MistercigarProductParser.parse_product; a page without a title raises.
MistercigarProduct(page) ==
    LET product == JsonLd(page.scripts) IN
    [title |-> page.title,
     sku |-> Or(page.sku, IF product = None THEN None ELSE product.sku),
     brand |-> Attribute(page, "Marque"),
     manufacturer |-> Attribute(page, "Fabricant"),
     vitola |-> Attribute(page, "Module"),
     length |-> Attribute(page, "Longueur (mm)"),
     ring |-> Attribute(page, "Bague"),
     weight |-> Weight(page),
     leaves |-> Leaves(page),
     production |-> Attribute(page, "Pays de Production"),
     strength |-> ParseStrengthBullets(Attribute(page, "Puissance")),
     pack |-> PackSize(page),
     price |-> Offer(product),
     image |-> IF product = None THEN None ELSE CoerceImage(product.image)]

\* "CHF13.00 - CHF200.00": the first price of the text that the page shows.
ShownPrice(page) ==
    Or(FirstOf(page.shown), [amount |-> None, currency |-> None])

\* CigarpassionProductParser.parse_product: what is missing in the JSON-LD is read
\* off the page, the currency only together with the amount, and is CHF when
\* nothing names one; the strength is not read.
CigarpassionProduct(page) ==
    LET common == MistercigarProduct(page)
        offer == common.price
        shown == IF offer.amount = None THEN ShownPrice(page)
                 ELSE [amount |-> None, currency |-> None]
    IN [common EXCEPT
          !.strength = None,
          !.price = [amount |-> Or(offer.amount, shown.amount),
                     currency |-> Or(Or(offer.currency, shown.currency), "CHF")],
          !.image = Or(common.image, FirstOf(page.gallery))]

\* product_parser_for_url
Extraction(page) ==
    IF MerchantOf(page.host) = <<"ch", "cigarpassion">>
    THEN CigarpassionProduct(page) ELSE MistercigarProduct(page)

-----------------------------------------------------------------------------
(* The mapping to the domain.                                               *)

\* map_country: a label that is not known has no code.
Country(label) == IF label \in DOMAIN IsoOf THEN IsoOf[label] ELSE None

ContainsWords(text, words) ==
    \E i \in 1..Len(text) :
        i + Len(words) - 1 <= Len(text) /\ SubSeq(text, i, i + Len(words) - 1) = words

\* map_format_category: the alias itself, else the first alias of the table that
\* the label contains.
Format(label) ==
    LET exact == {i \in 1..Len(Formats) : Formats[i][1] = label}
        within == {i \in 1..Len(Formats) : ContainsWords(label, Formats[i][1])}
        firstOf(S) == Formats[CHOOSE i \in S : \A j \in S : i <= j][2]
    IN IF label = None THEN "other"
       ELSE IF exact # {} THEN firstOf(exact)
       ELSE IF within # {} THEN firstOf(within) ELSE "other"

Strengths == <<"mild", "mild_medium", "medium", "medium_full", "full">>
Strength(level) == IF level \in 1..5 THEN Strengths[level] ELSE None

\* The component of a leaf; every filler counts as seco, and a leaf whose origin
\* is not known has low confidence.
Component(role, origin) ==
    [type |-> IF role = "filler" THEN "filler_seco" ELSE role,
     origin |-> Country(origin),
     confidence |-> IF Country(origin) = None THEN "low" ELSE "medium"]
Components(leaves) ==
    (IF leaves.wrapper = None THEN <<>> ELSE <<Component("wrapper", leaves.wrapper)>>)
    \o (IF leaves.binder = None THEN <<>> ELSE <<Component("binder", leaves.binder)>>)
    \o [i \in 1..Len(leaves.fillers) |-> Component("filler", leaves.fillers[i])]

\* strip_pack_suffix: the title without its "(N)".
StripPack(title) == title.words

\* cigar_slug_from: brand and title.
Slug(x) == <<x.brand>> \o StripPack(x.title)

\* The path of a product URL: boutique, a country bucket, the brand, the line and
\* its sub-lines, the product.
InferLine(path, brand) ==
    LET inner == IF Len(path) < 3 THEN <<>> ELSE SubSeq(path, 2, Len(path) - 1)
        at == {i \in 1..Len(inner) : inner[i] = brand}
        b == CHOOSE i \in at : \A j \in at : i <= j
    IN IF path = <<>> \/ Head(path) # "boutique" \/ at = {} THEN None
       ELSE IF b = Len(inner) \/ inner[b + 1] = "cigares-bucket" THEN None
       ELSE inner[b + 1]

\* resolve_line: without one in the URL the line is named after the brand.
Line(path, brand) == Or(InferLine(path, brand), brand)

\* round-half-even of the decimal library, at the stored resolution.
DivideRounded(a, n) ==
    LET q == a \div n
        twice == 2 * (a % n)
    IN IF twice > n \/ (twice = n /\ q % 2 = 1) THEN q + 1 ELSE q

MaxGrams == 500

\* Mutation: the weight of the pack is taken for the weight of the cigar.
WeightOfPack(x) ==
    IF x.weight = None \/ x.weight > 100 * MaxGrams THEN None ELSE x.weight

\* The merchant's weight is that of the pack; a result over 500 g is noise.
UnitWeight(x) ==
    LET w == IF x.weight = None THEN None
             ELSE IF x.pack # None /\ x.pack > 1 THEN DivideRounded(x.weight, x.pack)
             ELSE IF x.pack \in {None, 1} THEN x.weight ELSE None
    IN IF w # None /\ w > 100 * MaxGrams THEN None ELSE w

\* Each filler country counts once.
FillerCountries(leaves) == {Country(leaves.fillers[i]) : i \in 1..Len(leaves.fillers)} \ {None}

\* build_cigar
Cigar(x) ==
    LET wrapper == Country(x.leaves.wrapper) IN
    [slug |-> Slug(x),
     full_name |-> StripPack(x.title),
     vitola |-> Or(x.vitola, <<"unknown">>),
     format |-> Format(x.vitola),
     length |-> x.length,
     ring |-> x.ring,
     weight |-> UnitWeight(x),
     wrapper |-> wrapper,
     binder |-> Country(x.leaves.binder),
     fillers |-> FillerCountries(x.leaves),
     strength |-> Strength(x.strength),
     is_cuban |-> Country(x.production) = "CUB" \/ wrapper = "CUB",
     blend |-> Components(x.leaves)]

\* What execute accepts: a page with a title and a brand.
Ingestible(page) == page.title # None /\ Attribute(page, "Marque") # None
=============================================================================
