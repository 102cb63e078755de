----------------------------- MODULE Catalogue ------------------------------
(***************************************************************************)
(* What the console keeps of the assortment (console/products,             *)
(* console/categories) while customers save, bag and order it.  A deletion *)
(* counts what refers to the row first and deletes later; the foreign keys *)
(* of prisma/schema.prisma decide what the database then does: refuse,     *)
(* take the referring rows along, or set their reference to null.  Texts,  *)
(* pictures and prices are left out; outfits and reviews, which nothing in *)
(* the program writes, too.                                                *)
(***************************************************************************)
EXTENDS Integers, FiniteSets

CONSTANTS
  Categories, Products, Colours, Sizes, Units, Lines,
  Editors,      \* console requests under way
  Missing

VARIABLES
  category,     \* categories there are
  product,      \* product[p]: its category, or Missing
  colour,       \* colour[v]: ProductVariant with its sizes, or Missing
  unit,         \* unit[u]: GarmentUnit, or Missing
  line,         \* line[l]: CartItem or (ordered) OrderItem, or Missing
  wish,         \* products on a wishlist
  editor        \* editor[e]: what a console request has read

catalogueVars == <<category, product, colour, unit, line, wish, editor>>

Resting == [pc |-> "resting"]

ColourRow == [product : Products, sizes : SUBSET Sizes]
UnitRow == [colour : Colours, size : Sizes, gone : BOOLEAN]
LineRow == [product : Products, colour : Colours \cup {Missing}, ordered : BOOLEAN]

Init ==
  /\ category = {}
  /\ product = [p \in Products |-> Missing]
  /\ colour = [v \in Colours |-> Missing]
  /\ unit = [u \in Units |-> Missing]
  /\ line = [l \in Lines |-> Missing]
  /\ wish = {}
  /\ editor = [e \in Editors |-> Resting]

There(table) == {x \in DOMAIN table : table[x] # Missing}
ColoursOf(p) == {v \in There(colour) : colour[v].product = p}
UnitsOf(vs) == {u \in There(unit) : unit[u].colour \in vs}
LinesOf(p) == {l \in There(line) : line[l].product = p}

(* An id is given once: no request still holds that of an earlier row.     *)
Fresh(table, x) ==
  /\ table[x] = Missing
  /\ x \notin {editor[e].row : e \in {f \in Editors : editor[f].pc \notin {"resting", "create"}}}

Turns(e, to) == editor' = [editor EXCEPT ![e] = to]

-----------------------------------------------------------------------------
(* Categories: names are unique; one that is used cannot go.               *)
CreateCategory(c) ==
  /\ c \notin category
  /\ category' = category \cup {c}
  /\ UNCHANGED <<product, colour, unit, line, wish, editor>>

CountCategory(e, c) ==
  /\ editor[e] = Resting
  /\ c \in category
  /\ \A p \in There(product) : product[p] # c
  /\ Turns(e, [pc |-> "dropCategory", row |-> c])
  /\ UNCHANGED <<category, product, colour, unit, line, wish>>

(* Product.categoryId has a restricting foreign key.                       *)
CategoryUsed(c) == \E p \in There(product) : product[p] = c

DropCategory(e) ==
  /\ editor[e].pc = "dropCategory"
  /\ category' = IF CategoryUsed(editor[e].row) THEN category ELSE category \ {editor[e].row}
  /\ Turns(e, Resting)
  /\ UNCHANGED <<product, colour, unit, line, wish>>

-----------------------------------------------------------------------------
(* createProduct writes the product with its colours and their sizes;      *)
(* updateProduct may change the category.  Both look for the category first*)
(* and depend on its foreign key when they write.                          *)
ReadCategory(e, p, c) ==
  /\ editor[e] = Resting
  /\ c \in category
  /\ Turns(e, [pc |-> IF product[p] = Missing THEN "create" ELSE "update", row |-> p, category |-> c])
  /\ UNCHANGED <<category, product, colour, unit, line, wish>>

WriteProduct(e) ==
  LET p == editor[e].row
      c == editor[e].category
      possible == /\ c \in category
                  /\ IF editor[e].pc = "update" THEN product[p] # Missing ELSE Fresh(product, p)
  IN /\ editor[e].pc \in {"create", "update"}
     /\ IF possible THEN product' = [product EXCEPT ![p] = c] ELSE UNCHANGED product
     /\ \/ UNCHANGED colour
        \/ /\ possible /\ editor[e].pc = "create"
           /\ \E v \in Colours :
                Fresh(colour, v) /\ colour' = [colour EXCEPT ![v] = [product |-> p, sizes |-> Sizes]]
     /\ Turns(e, Resting)
     /\ UNCHANGED <<category, unit, line, wish>>

(* The six counts of deleteProduct; outfits and reviews are always zero.   *)
CountProduct(e, p) ==
  /\ editor[e] = Resting
  /\ p \in There(product)
  /\ UnitsOf(ColoursOf(p)) = {} /\ LinesOf(p) = {} /\ p \notin wish
  /\ Turns(e, [pc |-> "dropProduct", row |-> p])
  /\ UNCHANGED <<category, product, colour, unit, line, wish>>

(* Restricting foreign keys: OrderItem, CartItem and WishlistItem to the   *)
(* product, GarmentUnit to its colours, which go with the product.         *)
ProductUsed(p) == p \in wish \/ LinesOf(p) # {} \/ UnitsOf(ColoursOf(p)) # {}

Without(table, rows) == [x \in DOMAIN table |-> IF x \in rows THEN Missing ELSE table[x]]

DropProduct(e) ==
  LET p == editor[e].row IN
  /\ editor[e].pc = "dropProduct"
  /\ IF ProductUsed(p)
     THEN UNCHANGED <<product, colour, line>>
     ELSE /\ product' = Without(product, {p})
          /\ colour' = Without(colour, ColoursOf(p))
          /\ line' = Without(line, LinesOf(p))
  /\ Turns(e, Resting)
  /\ UNCHANGED <<category, unit, wish>>

-----------------------------------------------------------------------------
AddVariant(v, p) ==
  /\ Fresh(colour, v) /\ p \in There(product)
  /\ colour' = [colour EXCEPT ![v] = [product |-> p, sizes |-> Sizes]]
  /\ UNCHANGED <<category, product, unit, line, wish, editor>>

(* The sizes are replaced; units of a size that is no longer offered stay. *)
UpdateVariant(v, sizes) ==
  /\ v \in There(colour)
  /\ colour' = [colour EXCEPT ![v].sizes = sizes]
  /\ UNCHANGED <<category, product, unit, line, wish, editor>>

(* Only garments still in circulation count.                               *)
CountVariant(e, v) ==
  /\ editor[e] = Resting
  /\ v \in There(colour)
  /\ \A u \in UnitsOf({v}) : unit[u].gone
  /\ Turns(e, [pc |-> "dropVariant", row |-> v])
  /\ UNCHANGED <<category, product, colour, unit, line, wish>>

(* Mutant of VariantUsed: only what the console counted keeps a colour.    *)
VariantUsedInCirculation(v) == \E u \in UnitsOf({v}) : ~unit[u].gone

(* GarmentUnit restricts; bag lines go with the colour, order items lose   *)
(* their reference to it.                                                  *)
VariantUsed(v) == UnitsOf({v}) # {}

DropVariant(e) ==
  LET v == editor[e].row
      naming == {l \in There(line) : line[l].colour = v}
  IN /\ editor[e].pc = "dropVariant"
     /\ IF VariantUsed(v)
        THEN UNCHANGED <<colour, line>>
        ELSE /\ colour' = Without(colour, {v})
             /\ line' = [l \in Lines |-> IF l \notin naming THEN line[l]
                                         ELSE IF line[l].ordered THEN [line[l] EXCEPT !.colour = Missing]
                                         ELSE Missing]
     /\ Turns(e, Resting)
     /\ UNCHANGED <<category, product, unit, wish>>

(* addUnit: the size must be declared when it is looked up.                *)
ReadVariant(e, v, size) ==
  /\ editor[e] = Resting
  /\ v \in There(colour) /\ size \in colour[v].sizes
  /\ Turns(e, [pc |-> "unit", row |-> v, size |-> size])
  /\ UNCHANGED <<category, product, colour, unit, line, wish>>

AddUnit(e) ==
  LET v == editor[e].row IN
  /\ editor[e].pc = "unit"
  /\ \/ UNCHANGED unit
     \/ /\ v \in There(colour)
        /\ \E u \in Units \ There(unit) :
             unit' = [unit EXCEPT ![u] = [colour |-> v, size |-> editor[e].size, gone |-> FALSE]]
  /\ Turns(e, Resting)
  /\ UNCHANGED <<category, product, colour, line, wish>>

(* A garment is sold or retired for good.                                  *)
Leaves(u) ==
  /\ u \in There(unit) /\ ~unit[u].gone
  /\ unit' = [unit EXCEPT ![u].gone = TRUE]
  /\ UNCHANGED <<category, product, colour, line, wish, editor>>

-----------------------------------------------------------------------------
(* Customers: the bag, the order made of it, and the wishlist.             *)
Bag(l, v) ==
  /\ line[l] = Missing /\ v \in There(colour)
  /\ line' = [line EXCEPT ![l] = [product |-> colour[v].product, colour |-> v, ordered |-> FALSE]]
  /\ UNCHANGED <<category, product, colour, unit, wish, editor>>

Unbag(l) ==
  /\ l \in There(line) /\ ~line[l].ordered
  /\ line' = Without(line, {l})
  /\ UNCHANGED <<category, product, colour, unit, wish, editor>>

Order(l, item) ==
  /\ l \in There(line) /\ ~line[l].ordered
  /\ line[item] = Missing
  /\ line' = [line EXCEPT ![item] = [line[l] EXCEPT !.ordered = TRUE]]
  /\ UNCHANGED <<category, product, colour, unit, wish, editor>>

Wish(p) ==
  /\ p \in There(product)
  /\ wish' = IF p \in wish THEN wish \ {p} ELSE wish \cup {p}
  /\ UNCHANGED <<category, product, colour, unit, line, editor>>

Next ==
  \/ \E e \in Editors :
       \/ DropCategory(e) \/ WriteProduct(e) \/ DropProduct(e) \/ DropVariant(e) \/ AddUnit(e)
       \/ \E c \in Categories : CountCategory(e, c) \/ \E p \in Products : ReadCategory(e, p, c)
       \/ \E p \in Products : CountProduct(e, p)
       \/ \E v \in Colours : CountVariant(e, v) \/ \E s \in Sizes : ReadVariant(e, v, s)
  \/ \E c \in Categories : CreateCategory(c)
  \/ \E v \in Colours :
       \/ \E p \in Products : AddVariant(v, p)
       \/ \E sizes \in SUBSET Sizes : UpdateVariant(v, sizes)
       \/ \E l \in Lines : Bag(l, v)
  \/ \E u \in Units : Leaves(u)
  \/ \E l \in Lines : Unbag(l) \/ \E item \in Lines : Order(l, item)
  \/ \E p \in Products : Wish(p)

Spec == Init /\ [][Next]_catalogueVars

-----------------------------------------------------------------------------
(* Every row has a shape its table allows.                                 *)
TypeOK ==
  /\ \A v \in There(colour) : colour[v] \in ColourRow
  /\ \A u \in There(unit) : unit[u] \in UnitRow
  /\ \A l \in There(line) : line[l] \in LineRow

(* Whatever is deleted while somebody adds to it, nothing refers to a row  *)
(* that is gone: a product keeps its category, a colour, a wish and a line *)
(* their product, a garment - also one that was sold - its colour          *)
(* (console/products: deleteProduct, deleteVariant; console/categories).   *)
NothingDangles ==
  /\ \A p \in There(product) : product[p] \in category
  /\ \A v \in There(colour) : colour[v].product \in There(product)
  /\ \A u \in There(unit) : unit[u].colour \in There(colour)
  /\ \A l \in There(line) : line[l].product \in There(product)
  /\ \A l \in There(line) : line[l].colour # Missing => line[l].colour \in There(colour)
  /\ wish \subseteq There(product)

(* What was ordered stays on its order, whatever the console deletes       *)
(* (deleteProduct: "Only allowed when nothing anywhere references this     *)
(* product").                                                              *)
OrderedStays ==
  [][\A l \in Lines : line[l] # Missing /\ line[l].ordered
                      => line'[l] # Missing /\ line'[l].ordered /\ line'[l].product = line[l].product]_catalogueVars
=============================================================================
