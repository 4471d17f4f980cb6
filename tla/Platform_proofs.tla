----------------------------- MODULE Platform_proofs -----------------------------
(***************************************************************************)
(* What the rest of the platform stands on, for any number of restaurants, *)
(* products, accounts, files and handlers: the cap on the products of a    *)
(* restaurant and what refers to what; imports that are learned; sessions  *)
(* that end with a logout; one default address.                            *)
(***************************************************************************)
EXTENDS Catalogue, Imports, Accounts, FiniteSetTheorems, SequenceTheorems, TLAPS

-------------------------------------------------------------------------------
(* The catalogue.                                                          *)
HeldInCatalogue(held) == DOMAIN held = DOMAIN CatalogueNothing /\ DOMAIN held.doc = DOMAIN NoProduct

StaffShape ==
    /\ DOMAIN cataloguePc = CatalogueStaff /\ DOMAIN catalogueLoc = CatalogueStaff
    /\ \A w \in CatalogueStaff : HeldInCatalogue(catalogueLoc[w])

ProductShape == DOMAIN product = ProductIds
                /\ \A p \in ProductIds : DOMAIN product[p] = DOMAIN NoProduct

LEMMA CatalogueFields ==
    /\ DOMAIN NoProduct = {"phase", "of", "title", "slug", "section", "available", "via"}
    /\ DOMAIN CatalogueNothing = {"id", "branch", "user", "former", "section", "doc", "todo"}
    /\ NoProduct.phase = "none"
    /\ HeldInCatalogue(CatalogueNothing) /\ CatalogueNothing.doc = NoProduct
BY DEF NoProduct, CatalogueNothing, HeldInCatalogue

LEMMA NothingHeld == HeldInCatalogue(CatalogueNothing)
BY DEF HeldInCatalogue, CatalogueNothing

(* A handler at a product takes its new version along. *)
LEMMA DocHeld ==
    ASSUME NEW p, NEW doc, DOMAIN doc = DOMAIN NoProduct,
           NEW held, held = [CatalogueNothing EXCEPT !.id = p, !.doc = doc]
    PROVE  HeldInCatalogue(held) /\ held.doc = doc
BY CatalogueFields DEF HeldInCatalogue

LEMMA CatalogueWalk ==
    ASSUME StaffShape, NEW w \in CatalogueStaff, NEW label, NEW held, HeldInCatalogue(held),
           CatalogueGo(w, label, held)
    PROVE  /\ StaffShape'
           /\ cataloguePc'[w] = label /\ catalogueLoc'[w] = held
           /\ \A v \in CatalogueStaff : v # w => /\ cataloguePc'[v] = cataloguePc[v]
                                                 /\ catalogueLoc'[v] = catalogueLoc[v]
BY DEF StaffShape, CatalogueGo, HeldInCatalogue

LEMMA CatalogueRests ==
    ASSUME NEW w, CatalogueDone(w) PROVE CatalogueGo(w, "idle", CatalogueNothing)
BY DEF CatalogueDone

(* Where a handler goes but for the check and the insertion of a product;  *)
(* an import brings no product of the form.                                *)
Importing == {"importSection", "importProduct"}

Walks(w) == \/ UNCHANGED <<cataloguePc, catalogueLoc>>
            \/ \E label, held : /\ label # "insert" /\ HeldInCatalogue(held)
                                /\ label \in Importing => held.doc.via # "form"
                                /\ CatalogueGo(w, label, held)

LEMMA RestWalks ==
    ASSUME NEW w, CatalogueDone(w) PROVE Walks(w)
BY CatalogueRests, CatalogueFields DEF Walks, Importing

LEMMA GoWalks ==
    ASSUME NEW w, NEW label, NEW held, CatalogueGo(w, label, held), label # "insert",
           label \notin {"importSection", "importProduct"}, HeldInCatalogue(held)
    PROVE  Walks(w)
BY DEF Walks, Importing

LEMMA ChiefWalks ==
    ASSUME StaffShape, NEW w \in CatalogueStaff, ChiefStep(w)
    PROVE  Walks(w)
<1> DEFINE l == catalogueLoc[w]
<1>l. HeldInCatalogue(l) /\ DOMAIN l = {"id", "branch", "user", "former", "section", "doc", "todo"}
  BY CatalogueFields DEF StaffShape, HeldInCatalogue
<1>n. HeldInCatalogue(CatalogueNothing) BY NothingHeld
<1>1. CASE ReadNewOwner(w)
  <2>1. PICK r, u, s :
           CatalogueGo(w, "open", [CatalogueNothing EXCEPT !.branch = r, !.user = u, !.id = s])
    BY <1>1 DEF ReadNewOwner
  <2>2. HeldInCatalogue([CatalogueNothing EXCEPT !.branch = r, !.user = u, !.id = s])
    BY <1>n, CatalogueFields DEF HeldInCatalogue
  <2> QED BY <2>1, <2>2, GoWalks
<1>2. CASE OpenBranch(w) BY <1>2, <1>l, RestWalks, GoWalks DEF OpenBranch
<1>3. CASE AssignOwner(w) BY <1>3, <1>l, RestWalks, GoWalks DEF AssignOwner
<1>4. CASE ReadBranch(w)
  <2>1. PICK r, u, s, f, t : CatalogueGo(w, "rewrite", [CatalogueNothing EXCEPT
                !.branch = r, !.user = u, !.former = f, !.id = s, !.doc.title = t])
    BY <1>4 DEF ReadBranch
  <2>2. HeldInCatalogue([CatalogueNothing EXCEPT
                !.branch = r, !.user = u, !.former = f, !.id = s, !.doc.title = t])
    BY <1>n, CatalogueFields DEF HeldInCatalogue
  <2> QED BY <2>1, <2>2, GoWalks
<1>5. CASE RewriteBranch(w)
  <2>1. \/ CatalogueGo(w, "release", l) \/ CatalogueGo(w, "renameSlugs", l) \/ CatalogueDone(w)
    BY <1>5 DEF RewriteBranch
  <2> QED BY <2>1, <1>l, RestWalks, GoWalks
<1>6. CASE ReleaseFormer(w) BY <1>6, <1>l, GoWalks DEF ReleaseFormer
<1>7. CASE FindSlugs(w)
  <2>1. HeldInCatalogue([l EXCEPT !.todo = ProductsOf(l.branch)])
    BY <1>l DEF HeldInCatalogue
  <2> QED BY <1>7, <2>1, GoWalks DEF FindSlugs
<1>8. CASE RenameSlug(w)
  <2>1. \A S : HeldInCatalogue([l EXCEPT !.todo = S]) BY <1>l DEF HeldInCatalogue
  <2>2. CatalogueDone(w) \/ \E S : CatalogueGo(w, "renameSlug", [l EXCEPT !.todo = S])
    BY <1>8 DEF RenameSlug
  <2>3. ASSUME NEW S, CatalogueGo(w, "renameSlug", [l EXCEPT !.todo = S]) PROVE Walks(w)
    BY <2>1, <2>3, GoWalks
  <2> QED BY <2>2, <2>3, RestWalks
<1>9. CASE CloseBranch(w)
  <2>1. PICK r, f : CatalogueGo(w, "dropProducts", [CatalogueNothing EXCEPT !.branch = r, !.former = f])
    BY <1>9 DEF CloseBranch
  <2>2. HeldInCatalogue([CatalogueNothing EXCEPT !.branch = r, !.former = f])
    BY <1>n, CatalogueFields DEF HeldInCatalogue
  <2> QED BY <2>1, <2>2, GoWalks
<1>10. CASE DropProducts(w) \/ DropStuffs(w) \/ DropRecipes(w) \/ FreeOwner(w)
  BY <1>10, <1>l, RestWalks, GoWalks DEF DropProducts, DropStuffs, DropRecipes, FreeOwner
<1>11. CASE ReadLeaver(w)
  <2>1. PICK u : CatalogueGo(w, "deleteUser", [CatalogueNothing EXCEPT !.user = u])
    BY <1>11 DEF ReadLeaver
  <2>2. HeldInCatalogue([CatalogueNothing EXCEPT !.user = u])
    BY <1>n, CatalogueFields DEF HeldInCatalogue
  <2> QED BY <2>1, <2>2, GoWalks
<1>12. CASE DeletePerson(w) BY <1>12, RestWalks DEF DeletePerson
<1>13. CASE MovePerson(w) \/ WriteSection(w) BY <1>13 DEF MovePerson, WriteSection, Walks
<1>14. CASE ReadSection(w)
  <2>1. PICK c : CatalogueGo(w, "ensureDefault", [CatalogueNothing EXCEPT !.section = c])
    BY <1>14 DEF ReadSection
  <2>2. HeldInCatalogue([CatalogueNothing EXCEPT !.section = c])
    BY <1>n, CatalogueFields DEF HeldInCatalogue
  <2> QED BY <2>1, <2>2, GoWalks
<1>15. CASE EnsureDefault(w)
  <2>1. PICK c : CatalogueGo(w, "reassign", [l EXCEPT !.id = c]) BY <1>15 DEF EnsureDefault
  <2>2. HeldInCatalogue([l EXCEPT !.id = c]) BY <1>l DEF HeldInCatalogue
  <2> QED BY <2>1, <2>2, GoWalks
<1>16. CASE ReassignProducts(w) \/ DeleteSection(w)
  BY <1>16, <1>l, RestWalks, GoWalks DEF ReassignProducts, DeleteSection
<1> QED BY <1>1, <1>2, <1>3, <1>4, <1>5, <1>6, <1>7, <1>8, <1>9, <1>10, <1>11, <1>12, <1>13,
           <1>14, <1>15, <1>16 DEF ChiefStep

(* The product a menu file brings. *)
LEMMA DescribedFields ==
    ASSUME NEW r, NEW t, NEW c, NEW via, NEW doc, doc = Described(r, t, c, via)
    PROVE  DOMAIN doc = DOMAIN NoProduct /\ doc.of = r /\ doc.section = c /\ doc.via = via
BY DEF Described, NoProduct

LEMMA MenuRowRead ==
    ASSUME NEW w, ReadMenuRow(w)
    PROVE  \E c \in Live(section) \cup {Nobody} : \E p, doc :
              /\ DOMAIN doc = DOMAIN NoProduct /\ doc.via # "form"
              /\ doc = NoProduct \/ doc.via = "file"
              /\ CatalogueGo(w, IF c = Nobody THEN "importSection" ELSE "importProduct",
                             [CatalogueNothing EXCEPT !.id = p, !.section = c, !.doc = doc])
<1>1. PICK r \in WithinReach(w), t \in Titles, c \in Live(section) \cup {Nobody}, p \in ProductIds :
         \E doc \in {NoProduct, [Described(r, t, c, "file") EXCEPT !.slug = <<p, t>>]} :
            /\ IF doc = NoProduct
               THEN p \in ProductsOf(r) /\ product[p].title = t
               ELSE product[p] = NoProduct /\ \A q \in ProductsOf(r) : product[q].title # t
            /\ CatalogueGo(w, IF c = Nobody THEN "importSection" ELSE "importProduct",
                           [CatalogueNothing EXCEPT !.id = p, !.section = c, !.doc = doc])
  BY Zenon DEF ReadMenuRow
<1>2. PICK doc \in {NoProduct, [Described(r, t, c, "file") EXCEPT !.slug = <<p, t>>]} :
         CatalogueGo(w, IF c = Nobody THEN "importSection" ELSE "importProduct",
                     [CatalogueNothing EXCEPT !.id = p, !.section = c, !.doc = doc])
  BY <1>1, Zenon
<1>3. /\ DOMAIN doc = DOMAIN NoProduct /\ doc.via # "form"
      /\ doc = NoProduct \/ doc.via = "file"
  <2>1. CASE doc = NoProduct BY <2>1 DEF NoProduct
  <2>2. CASE doc = [Described(r, t, c, "file") EXCEPT !.slug = <<p, t>>]
    BY <2>2 DEF Described, NoProduct
  <2> QED BY <2>1, <2>2
<1>4. WITNESS c \in Live(section) \cup {Nobody}
<1>5. WITNESS p, doc
<1> QED BY <1>2, <1>3

LEMMA ProductRead ==
    ASSUME NEW w, ReadProduct(w)
    PROVE  \E c \in Live(section) \cup {Nobody}, r \in Live(branch) \cup {Nobody} : \E p, t, slug :
              CatalogueGo(w, "update", [CatalogueNothing EXCEPT
                !.id = p, !.branch = r, !.section = c, !.doc.title = t, !.doc.slug = slug])
<1>1. PICK p \in Live(product), t \in Titles \cup {Nobody}, c \in Live(section) \cup {Nobody},
           r \in Live(branch) \cup {Nobody} :
         LET renamed == t # Nobody \/ r # Nobody
             at      == Given(r, product[p].of)
             slug    == <<branch[at].sign, Given(t, product[p].title)>>
         IN  /\ product[p].of \in WithinReach(w)
             /\ w \in Clerks => r \in {product[p].of, Nobody}
             /\ renamed => at \in Live(branch) /\ SlugFree(p, slug)
             /\ CatalogueGo(w, "update", [CatalogueNothing EXCEPT
                   !.id = p, !.branch = r, !.section = c, !.doc.title = t,
                   !.doc.slug = IF renamed THEN slug ELSE product[p].slug])
  BY Zenon DEF ReadProduct
<1>2. WITNESS c \in Live(section) \cup {Nobody}, r \in Live(branch) \cup {Nobody}
<1>3. WITNESS p, t, IF t # Nobody \/ r # Nobody
                    THEN <<branch[Given(r, product[p].of)].sign, Given(t, product[p].title)>>
                    ELSE product[p].slug
<1> QED BY <1>1, Zenon

LEMMA ClerkWalks ==
    ASSUME StaffShape, ProductShape, NEW w \in CatalogueStaff, ClerkStep(w), ~ReadForProduct(w),
           cataloguePc[w] \in Importing => catalogueLoc[w].doc.via # "form"
    PROVE  Walks(w)
<1> DEFINE l == catalogueLoc[w]
<1>l. HeldInCatalogue(l) BY DEF StaffShape
<1>n. HeldInCatalogue(CatalogueNothing) BY NothingHeld
<1>1. CASE InsertProduct(w) \/ UpdateProduct(w) \/ ImportProduct(w) \/ DeleteRecipe(w)
           \/ WriteRecipe(w) \/ DeleteStuff(w)
  BY <1>1, RestWalks
     DEF InsertProduct, UpdateProduct, ImportProduct, DeleteRecipe, WriteRecipe, DeleteStuff
<1>2. CASE ChangeAvailability(w) \/ CreateStuff(w)
  BY <1>2 DEF ChangeAvailability, CreateStuff, Walks
<1>3. CASE ReadProduct(w)
  <2>1. PICK p, t, c, r, slug : CatalogueGo(w, "update", [CatalogueNothing EXCEPT
           !.id = p, !.branch = r, !.section = c, !.doc.title = t, !.doc.slug = slug])
    BY <1>3, ProductRead, Zenon
  <2>2. HeldInCatalogue([CatalogueNothing EXCEPT
           !.id = p, !.branch = r, !.section = c, !.doc.title = t, !.doc.slug = slug])
    BY <1>n, CatalogueFields DEF HeldInCatalogue
  <2> QED BY <2>1, <2>2, GoWalks
<1>7. CASE ReadMenuRow(w)
  <2>1. PICK c, p, doc :
           /\ DOMAIN doc = DOMAIN NoProduct /\ doc.via # "form"
           /\ CatalogueGo(w, IF c = Nobody THEN "importSection" ELSE "importProduct",
                          [CatalogueNothing EXCEPT !.id = p, !.section = c, !.doc = doc])
    BY <1>7, MenuRowRead
  <2>2. PICK held : held = [CatalogueNothing EXCEPT !.id = p, !.section = c, !.doc = doc] OBVIOUS
  <2>3. HeldInCatalogue(held) /\ held.doc = doc
    BY <2>1, <2>2, <1>n, CatalogueFields DEF HeldInCatalogue
  <2>4. held.doc.via # "form" BY <2>1, <2>3
  <2> QED BY <2>1, <2>2, <2>3, <2>4 DEF Walks
<1>8. CASE ImportSection(w)
  <2>1. l.doc.via # "form" BY <1>8 DEF ImportSection, Importing
  <2>2. \A c : HeldInCatalogue([l EXCEPT !.section = c]) /\ [l EXCEPT !.section = c].doc = l.doc
    BY <1>l, CatalogueFields DEF HeldInCatalogue
  <2>3. CatalogueDone(w) \/ \E c : CatalogueGo(w, "importProduct", [l EXCEPT !.section = c])
    BY <1>8 DEF ImportSection
  <2>4. ASSUME NEW c, CatalogueGo(w, "importProduct", [l EXCEPT !.section = c]) PROVE Walks(w)
    BY <2>1, <2>2, <2>4 DEF Walks
  <2> QED BY <2>3, <2>4, RestWalks
<1>4. CASE DeleteProduct(w)
  <2>1. PICK p : CatalogueGo(w, "deleteRecipe", [CatalogueNothing EXCEPT !.id = p])
    BY <1>4 DEF DeleteProduct
  <2>2. HeldInCatalogue([CatalogueNothing EXCEPT !.id = p])
    BY <1>n, CatalogueFields DEF HeldInCatalogue
  <2> QED BY <2>1, <2>2, GoWalks
<1>5. CASE ReadRecipe(w)
  <2>1. PICK p, r, via, S : CatalogueGo(w, "writeRecipe",
           [CatalogueNothing EXCEPT !.id = p, !.branch = r, !.doc.via = via, !.todo = S])
    BY <1>5 DEF ReadRecipe
  <2>2. HeldInCatalogue([CatalogueNothing EXCEPT !.id = p, !.branch = r, !.doc.via = via, !.todo = S])
    BY <1>n, CatalogueFields DEF HeldInCatalogue
  <2> QED BY <2>1, <2>2, GoWalks
<1>6. CASE ReadStuff(w)
  <2>1. PICK i : CatalogueGo(w, "deleteStuff", [CatalogueNothing EXCEPT !.id = i])
    BY <1>6 DEF ReadStuff
  <2>2. HeldInCatalogue([CatalogueNothing EXCEPT !.id = i])
    BY <1>n, CatalogueFields DEF HeldInCatalogue
  <2> QED BY <2>1, <2>2, GoWalks
<1> QED BY <1>1, <1>2, <1>3, <1>4, <1>5, <1>6, <1>7, <1>8 DEF ClerkStep

-------------------------------------------------------------------------------
(* How many products a restaurant has from its form, and how many are on   *)
(* their way: a step but for the check and the insertion makes neither     *)
(* more.                                                                   *)
Pending(r) == {w \in Clerks : /\ cataloguePc[w] = "insert"
                              /\ catalogueLoc[w].doc.of = r /\ catalogueLoc[w].doc.via = "form"}

Shrinks == /\ ProductShape'
           /\ \A p \in ProductIds : product'[p].via = "form" /\ product'[p].phase = "live" =>
                 /\ product[p].via = "form" /\ product[p].phase = "live"
                 /\ product'[p].of = product[p].of

LEMMA SameShrinks ==
    ASSUME ProductShape, UNCHANGED product PROVE Shrinks
BY DEF Shrinks, ProductShape

LEMMA ChiefShrinks ==
    ASSUME ProductShape, NEW w \in CatalogueStaff, ChiefStep(w)
    PROVE  Shrinks
<1>f. /\ \A p \in ProductIds : /\ "phase" \in DOMAIN product[p] /\ "of" \in DOMAIN product[p]
                               /\ "via" \in DOMAIN product[p]
      /\ DOMAIN product = ProductIds
      /\ \A p \in ProductIds : DOMAIN product[p] = DOMAIN NoProduct
  BY CatalogueFields DEF ProductShape
<1>1. CASE RenameSlug(w)
  <2>1. \/ UNCHANGED product
        \/ \E p, s : product' = [product EXCEPT ![p] = [product[p] EXCEPT !.slug = s]]
    BY <1>1, Zenon DEF RenameSlug
  <2>2. ASSUME NEW p, NEW s, product' = [product EXCEPT ![p] = [product[p] EXCEPT !.slug = s]]
        PROVE  Shrinks
    BY <1>f, <2>2 DEF Shrinks, ProductShape
  <2> QED BY <2>1, <2>2, SameShrinks
<1>2. CASE DropProducts(w)
  BY <1>2, <1>f DEF DropProducts, Shrinks, ProductShape
<1>3. CASE ReassignProducts(w)
  BY <1>3, <1>f DEF ReassignProducts, Shrinks, ProductShape
<1>4. CASE ReadNewOwner(w) \/ OpenBranch(w) \/ AssignOwner(w) \/ ReadBranch(w) \/ RewriteBranch(w)
  BY <1>4, SameShrinks, Zenon DEF ReadNewOwner, OpenBranch, AssignOwner, ReadBranch, RewriteBranch
<1>6. CASE ReleaseFormer(w) \/ FindSlugs(w) \/ CloseBranch(w) \/ DropStuffs(w) \/ DropRecipes(w)
  BY <1>6, SameShrinks DEF ReleaseFormer, FindSlugs, CloseBranch, DropStuffs, DropRecipes
<1>5. CASE FreeOwner(w) \/ ReadLeaver(w) \/ DeletePerson(w) \/ MovePerson(w) \/ WriteSection(w)
           \/ ReadSection(w) \/ EnsureDefault(w) \/ DeleteSection(w)
  BY <1>5, SameShrinks DEF FreeOwner, ReadLeaver, DeletePerson, MovePerson, WriteSection,
       ReadSection, EnsureDefault, DeleteSection
<1> QED BY <1>1, <1>2, <1>3, <1>4, <1>5, <1>6 DEF ChiefStep

LEMMA ClerkShrinks ==
    ASSUME ProductShape, StaffShape, NEW w \in CatalogueStaff, ClerkStep(w), ~InsertProduct(w),
           cataloguePc[w] \in Importing => catalogueLoc[w].doc.via # "form"
    PROVE  Shrinks
<1>f. /\ \A p \in ProductIds : /\ "phase" \in DOMAIN product[p] /\ "of" \in DOMAIN product[p]
                               /\ "via" \in DOMAIN product[p]
      /\ DOMAIN product = ProductIds
      /\ \A p \in ProductIds : DOMAIN product[p] = DOMAIN NoProduct
  BY CatalogueFields DEF ProductShape
<1>1. CASE UpdateProduct(w)
  <2> DEFINE l   == catalogueLoc[w]
             p   == l.id
             old == product[p]
             new == [old EXCEPT !.title = Given(l.doc.title, @), !.slug = l.doc.slug,
                                !.section = Given(l.section, @), !.of = Given(l.branch, @),
                                !.via = IF l.branch \in {old.of, Nobody} THEN @ ELSE "move"]
  <2>1. product' = [product EXCEPT ![p] = new] \/ UNCHANGED product BY <1>1 DEF UpdateProduct
  <2>2. ASSUME product' = [product EXCEPT ![p] = new] PROVE Shrinks
    <3>1. p \in ProductIds => /\ new.of = Given(l.branch, old.of) /\ new.phase = old.phase
                              /\ new.via = IF l.branch \in {old.of, Nobody} THEN old.via ELSE "move"
                              /\ DOMAIN new = DOMAIN NoProduct
      BY <1>f
    <3> HIDE DEF new
    <3>2. ProductShape' BY <1>f, <2>2, <3>1 DEF ProductShape
    <3>3. \A q \in ProductIds : product'[q] = IF q = p THEN new ELSE product[q] BY <1>f, <2>2
    <3> QED BY <3>1, <3>2, <3>3 DEF Shrinks, Given
  <2> QED BY <2>1, <2>2, SameShrinks
<1>5. CASE ImportProduct(w)
  <2>1. PICK l : l = catalogueLoc[w] OBVIOUS
  <2>2. /\ HeldInCatalogue(l) /\ l.doc.via # "form"
    BY <1>5, <2>1 DEF ImportProduct, Importing, StaffShape
  <2>3. PICK new : new = [l.doc EXCEPT !.section = l.section] OBVIOUS
  <2>4. DOMAIN new = DOMAIN NoProduct /\ new.via # "form"
    BY <2>2, <2>3, CatalogueFields DEF HeldInCatalogue
  <2>5. \/ UNCHANGED product
        \/ product' = [product EXCEPT ![l.id].section = l.section]
        \/ product' = [product EXCEPT ![l.id] = new]
    BY <1>5, <2>1, <2>3 DEF ImportProduct
  <2>6. CASE product' = [product EXCEPT ![l.id].section = l.section]
    BY <1>f, <2>6 DEF Shrinks, ProductShape
  <2>7. CASE product' = [product EXCEPT ![l.id] = new]
    BY <1>f, <2>4, <2>7 DEF Shrinks, ProductShape
  <2> QED BY <2>5, <2>6, <2>7, SameShrinks
<1>2. CASE ChangeAvailability(w)
  <2>1. PICK p, a : product' = [product EXCEPT ![p].available = a] BY <1>2 DEF ChangeAvailability
  <2> QED BY <1>f, <2>1 DEF Shrinks, ProductShape
<1>3. CASE DeleteProduct(w)
  <2>1. PICK p : product' = [product EXCEPT ![p].phase = "deleted"] BY <1>3 DEF DeleteProduct
  <2> QED BY <1>f, <2>1 DEF Shrinks, ProductShape
<1>4. CASE ReadForProduct(w) \/ ReadProduct(w) \/ ReadMenuRow(w) \/ ImportSection(w) \/ DeleteRecipe(w)
  BY <1>4, SameShrinks DEF ReadForProduct, ReadProduct, ReadMenuRow, ImportSection, DeleteRecipe
<1>6. CASE ReadRecipe(w) \/ WriteRecipe(w) \/ CreateStuff(w) \/ ReadStuff(w) \/ DeleteStuff(w)
  BY <1>6, SameShrinks DEF ReadRecipe, WriteRecipe, CreateStuff, ReadStuff, DeleteStuff
<1> QED BY <1>1, <1>2, <1>3, <1>4, <1>5, <1>6 DEF ClerkStep

LEMMA CountsAreFinite ==
    ASSUME ProductShape, NEW r
    PROVE  /\ IsFiniteSet(FormProducts(r)) /\ Cardinality(FormProducts(r)) \in Nat
           /\ Cardinality(ProductsOf(r)) \in Nat
           /\ Cardinality(FormProducts(r)) <= Cardinality(ProductsOf(r))
           /\ IsFiniteSet(Pending(r)) /\ Cardinality(Pending(r)) \in Nat
           /\ Cardinality(Pending(r)) <= Cardinality(Clerks)
           /\ Cardinality(Clerks) \in Nat
<1>1. ProductsOf(r) \in SUBSET ProductIds BY DEF ProductsOf, Live, ProductShape
<1>2. FormProducts(r) \in SUBSET ProductsOf(r) BY DEF FormProducts
<1>3. Pending(r) \in SUBSET Clerks BY DEF Pending
<1>4. IsFiniteSet(ProductsOf(r)) BY <1>1, FS_Subset, CatalogueAssumption
<1> QED BY <1>1, <1>2, <1>3, <1>4, FS_Subset, FS_CardinalityType, CatalogueAssumption

LEMMA CountsAreFiniteLater ==
    ASSUME ProductShape', NEW r
    PROVE  /\ IsFiniteSet(FormProducts(r)') /\ Cardinality(FormProducts(r)') \in Nat
           /\ IsFiniteSet(Pending(r)') /\ Cardinality(Pending(r)') \in Nat
           /\ Cardinality(Pending(r)') <= Cardinality(Clerks)
<1>1. FormProducts(r)' \in SUBSET ProductIds BY DEF FormProducts, ProductsOf, Live, ProductShape
<1>2. Pending(r)' \in SUBSET Clerks BY DEF Pending
<1> QED BY <1>1, <1>2, FS_Subset, FS_CardinalityType, CatalogueAssumption

(* A cap is at most the most it has been. *)
CapShape ==
    /\ DOMAIN branch = Branches
    /\ \A r \in Branches : /\ DOMAIN branch[r] = DOMAIN NoBranch
                           /\ branch[r].cap \in Nat /\ branch[r].granted \in Nat
                           /\ branch[r].cap <= branch[r].granted

Grants == CapShape' /\ \A r \in Branches : branch[r].granted <= branch'[r].granted

LEMMA SameGrants ==
    ASSUME CapShape, UNCHANGED branch PROVE Grants
BY DEF CapShape, Grants

LEMMA StepGrants ==
    ASSUME CapShape, NEW w \in CatalogueStaff, ChiefStep(w) \/ ClerkStep(w)
    PROVE  Grants
<1>f. DOMAIN NoBranch = {"phase", "owner", "sign", "cap", "granted"} BY DEF NoBranch
<1>1. CASE OpenBranch(w) \/ RewriteBranch(w) \/ CloseBranch(w)
  <2>1. \/ UNCHANGED branch
        \/ \E r, a, b, c : branch' = [branch EXCEPT ![r].phase = a, ![r].owner = b, ![r].sign = c]
        \/ \E r, b, c : branch' = [branch EXCEPT ![r].owner = b, ![r].sign = c]
        \/ \E r, a, b : branch' = [branch EXCEPT ![r].phase = a, ![r].owner = b]
    <3>1. CASE OpenBranch(w)
      <4>1. \/ UNCHANGED branch
            \/ branch' = [branch EXCEPT ![catalogueLoc[w].branch].phase = "live",
                                        ![catalogueLoc[w].branch].owner = catalogueLoc[w].user,
                                        ![catalogueLoc[w].branch].sign = catalogueLoc[w].id]
        BY <3>1, Zenon DEF OpenBranch
      <4> QED BY <4>1
    <3>2. CASE RewriteBranch(w) BY <3>2 DEF RewriteBranch
    <3>3. CASE CloseBranch(w) BY <3>3 DEF CloseBranch
    <3> QED BY <1>1, <3>1, <3>2, <3>3
  <2>2. ASSUME NEW r, NEW a, NEW b, NEW c,
               branch' = [branch EXCEPT ![r].phase = a, ![r].owner = b, ![r].sign = c]
        PROVE  Grants
    BY <1>f, <2>2 DEF CapShape, Grants
  <2>3. ASSUME NEW r, NEW b, NEW c, branch' = [branch EXCEPT ![r].owner = b, ![r].sign = c]
        PROVE  Grants
    BY <1>f, <2>3 DEF CapShape, Grants
  <2>4. ASSUME NEW r, NEW a, NEW b, branch' = [branch EXCEPT ![r].phase = a, ![r].owner = b]
        PROVE  Grants
    BY <1>f, <2>4 DEF CapShape, Grants
  <2> QED BY <2>1, <2>2, <2>3, <2>4, SameGrants
<1>2. CASE ReadNewOwner(w) \/ AssignOwner(w) \/ ReadBranch(w) \/ ReleaseFormer(w) \/ FindSlugs(w)
           \/ RenameSlug(w) \/ DropProducts(w) \/ DropStuffs(w) \/ DropRecipes(w)
  BY <1>2, SameGrants, Zenon DEF ReadNewOwner, AssignOwner, ReadBranch, ReleaseFormer, FindSlugs,
       RenameSlug, DropProducts, DropStuffs, DropRecipes
<1>3. CASE FreeOwner(w) \/ ReadLeaver(w) \/ DeletePerson(w) \/ MovePerson(w) \/ WriteSection(w)
           \/ ReadSection(w) \/ EnsureDefault(w) \/ ReassignProducts(w) \/ DeleteSection(w)
  BY <1>3, SameGrants, Zenon DEF FreeOwner, ReadLeaver, DeletePerson, MovePerson, WriteSection,
       ReadSection, EnsureDefault, ReassignProducts, DeleteSection
<1>4. CASE ReadForProduct(w) \/ InsertProduct(w) \/ ReadProduct(w) \/ UpdateProduct(w) \/ ReadMenuRow(w)
           \/ ImportSection(w) \/ ImportProduct(w) \/ ChangeAvailability(w)
  BY <1>4, SameGrants, Zenon DEF ReadForProduct, InsertProduct, ReadProduct, UpdateProduct, ReadMenuRow,
       ImportSection, ImportProduct, ChangeAvailability
<1>5. CASE DeleteProduct(w) \/ DeleteRecipe(w) \/ ReadRecipe(w) \/ WriteRecipe(w) \/ CreateStuff(w)
           \/ ReadStuff(w) \/ DeleteStuff(w)
  BY <1>5, SameGrants, Zenon DEF DeleteProduct, DeleteRecipe, ReadRecipe, WriteRecipe, CreateStuff,
       ReadStuff, DeleteStuff
<1> QED BY <1>1, <1>2, <1>3, <1>4, <1>5 DEF ChiefStep, ClerkStep

(* The products a restaurant has from its form and those on their way to   *)
(* it; only a clerk brings one of the form, and no import does.            *)
CapInv ==
    /\ StaffShape /\ ProductShape /\ CapShape
    /\ \A w \in CatalogueStaff : cataloguePc[w] = "insert" /\ catalogueLoc[w].doc.via = "form" => w \in Clerks
    /\ \A w \in CatalogueStaff : cataloguePc[w] \in Importing => catalogueLoc[w].doc.via # "form"
    /\ \A r \in Branches : Cardinality(FormProducts(r)) + Cardinality(Pending(r))
                              <= branch[r].granted + Cardinality(Clerks) - 1

LEMMA CapStart ==
    ASSUME Clerks # {}, InitCatalogue PROVE CapInv
<1>1. StaffShape
  BY CatalogueFields DEF InitCatalogue, StaffShape
<1>2. ProductShape BY DEF InitCatalogue, ProductShape
<1>3. CapShape BY DEF InitCatalogue, CapShape, NoBranch
<1>4. ASSUME NEW r \in Branches
      PROVE  Cardinality(FormProducts(r)) + Cardinality(Pending(r))
                <= branch[r].granted + Cardinality(Clerks) - 1
  <2>1. FormProducts(r) = {}
    BY CatalogueFields DEF InitCatalogue, FormProducts, ProductsOf, Live
  <2>2. Pending(r) = {} BY DEF InitCatalogue, Pending, CatalogueStaff
  <2>3. Cardinality(Clerks) \in Nat /\ Cardinality(Clerks) # 0
    BY FS_EmptySet, FS_CardinalityType, CatalogueAssumption
  <2>4. branch[r].granted \in Nat BY <1>3 DEF CapShape
  <2> QED BY <2>1, <2>2, <2>3, <2>4, FS_EmptySet
<1>5. \A w \in CatalogueStaff : cataloguePc[w] = "idle" BY DEF InitCatalogue
<1> QED BY <1>1, <1>2, <1>3, <1>4, <1>5 DEF CapInv, Importing

LEMMA CapWalk ==
    ASSUME CapInv, NEW w \in CatalogueStaff, Walks(w), Shrinks, Grants
    PROVE  CapInv'
<1>s. StaffShape /\ ProductShape /\ ProductShape' /\ CapShape /\ CapShape'
  BY DEF CapInv, Shrinks, Grants
<1>1. /\ StaffShape'
      /\ \A v \in CatalogueStaff : cataloguePc'[v] = "insert" =>
            cataloguePc[v] = "insert" /\ catalogueLoc'[v] = catalogueLoc[v]
      /\ \A v \in CatalogueStaff : cataloguePc'[v] \in Importing => catalogueLoc'[v].doc.via # "form"
  <2>1. CASE UNCHANGED <<cataloguePc, catalogueLoc>>
    BY <2>1, <1>s DEF CapInv, StaffShape, HeldInCatalogue
  <2>2. ASSUME NEW label, NEW held, label # "insert", HeldInCatalogue(held),
               label \in Importing => held.doc.via # "form", CatalogueGo(w, label, held)
        PROVE  <1>1!1 /\ <1>1!2 /\ <1>1!3
    BY <2>2, <1>s, CatalogueWalk DEF CapInv
  <2> QED BY <2>1, <2>2 DEF Walks
<1>2. ASSUME NEW r \in Branches
      PROVE  Cardinality(FormProducts(r)') + Cardinality(Pending(r)')
                <= branch'[r].granted + Cardinality(Clerks) - 1
  <2>1. FormProducts(r)' \in SUBSET FormProducts(r)
    BY <1>s DEF FormProducts, ProductsOf, Live, ProductShape, Shrinks
  <2>2. Pending(r)' \in SUBSET Pending(r) BY <1>1 DEF Pending, CatalogueStaff
  <2>3. /\ Cardinality(FormProducts(r)') <= Cardinality(FormProducts(r))
        /\ Cardinality(Pending(r)') <= Cardinality(Pending(r))
    BY <2>1, <2>2, <1>s, FS_Subset, CountsAreFinite
  <2>4. Cardinality(FormProducts(r)) + Cardinality(Pending(r)) <= branch[r].granted + Cardinality(Clerks) - 1
    BY DEF CapInv
  <2>5. branch[r].granted \in Nat /\ branch'[r].granted \in Nat /\ branch[r].granted <= branch'[r].granted
    BY <1>s DEF CapShape, Grants
  <2> HIDE DEF CapInv
  <2> QED BY <2>3, <2>4, <2>5, <1>s, CountsAreFinite, CountsAreFiniteLater
<1>3. \A v \in CatalogueStaff :
         cataloguePc'[v] = "insert" /\ catalogueLoc'[v].doc.via = "form" => v \in Clerks
  BY <1>1 DEF CapInv
<1> QED BY <1>s, <1>1, <1>2, <1>3 DEF CapInv

LEMMA CapCounted ==
    ASSUME CapInv, NEW w \in CatalogueStaff, ReadForProduct(w)
    PROVE  CapInv'
<1>s. StaffShape /\ ProductShape /\ CapShape BY DEF CapInv
<1>1. PICK p, t, c, b, via :
         /\ b \in Branches /\ (w \in Clerks => HasRoom(b))
         /\ via = IF w \in Chiefs THEN "chief" ELSE "form"
         /\ CatalogueGo(w, "insert", [CatalogueNothing EXCEPT !.id = p, !.doc = Described(b, t, c, via)])
  BY <1>s DEF ReadForProduct, Live, CapShape
<1>2. PICK doc : doc = Described(b, t, c, via) OBVIOUS
<1>3. DOMAIN doc = DOMAIN NoProduct /\ doc.of = b /\ doc.via = via BY <1>2, DescribedFields
<1>4. PICK held : held = [CatalogueNothing EXCEPT !.id = p, !.doc = doc] OBVIOUS
<1>5. HeldInCatalogue(held) /\ held.doc = doc BY <1>3, <1>4, DocHeld
<1>6. CatalogueGo(w, "insert", held) BY <1>1, <1>2, <1>4
<1>7. /\ StaffShape' /\ catalogueLoc'[w] = held /\ cataloguePc'[w] = "insert"
      /\ \A v \in CatalogueStaff : v # w => /\ cataloguePc'[v] = cataloguePc[v]
                                            /\ catalogueLoc'[v] = catalogueLoc[v]
  BY <1>s, <1>5, <1>6, CatalogueWalk
<1>8. /\ UNCHANGED product /\ UNCHANGED branch /\ ProductShape' /\ CapShape'
  BY <1>s DEF ReadForProduct, ProductShape, CapShape
<1>9. ASSUME NEW r \in Branches
      PROVE  Cardinality(FormProducts(r)') + Cardinality(Pending(r)')
                <= branch'[r].granted + Cardinality(Clerks) - 1
  <2>1. FormProducts(r)' = FormProducts(r) BY <1>8 DEF FormProducts, ProductsOf, Live
  <2>4. /\ branch'[r].granted = branch[r].granted /\ branch[r].granted \in Nat
        /\ branch[r].cap \in Nat /\ branch[r].cap <= branch[r].granted
    BY <1>s, <1>8 DEF CapShape
  <2>2. CASE r = b /\ via = "form"
    <3>1. Cardinality(ProductsOf(r)) < branch[r].cap
      BY <2>2, <1>1 DEF HasRoom, CatalogueStaff
    <3> QED BY <3>1, <2>1, <2>4, <1>s, <1>8, CountsAreFinite, CountsAreFiniteLater
  <2>3. CASE ~(r = b /\ via = "form")
    <3>1. Pending(r)' \in SUBSET Pending(r) BY <2>3, <1>3, <1>5, <1>7 DEF Pending, CatalogueStaff
    <3>2. Cardinality(Pending(r)') <= Cardinality(Pending(r))
      BY <3>1, <1>s, FS_Subset, CountsAreFinite
    <3>3. Cardinality(FormProducts(r)) + Cardinality(Pending(r)) <= branch[r].granted + Cardinality(Clerks) - 1
      BY DEF CapInv
    <3> QED BY <3>2, <3>3, <2>1, <2>4, <1>s, <1>8, CountsAreFinite, CountsAreFiniteLater
  <2> QED BY <2>2, <2>3
<1>10. \A v \in CatalogueStaff :
          cataloguePc'[v] = "insert" /\ catalogueLoc'[v].doc.via = "form" => v \in Clerks
  BY <1>1, <1>3, <1>5, <1>7 DEF CapInv, CatalogueStaff
<1>11. \A v \in CatalogueStaff : cataloguePc'[v] \in Importing => catalogueLoc'[v].doc.via # "form"
  BY <1>7 DEF CapInv, Importing
<1> QED BY <1>7, <1>8, <1>9, <1>10, <1>11 DEF CapInv

LEMMA CapInserted ==
    ASSUME CapInv, NEW w \in CatalogueStaff, InsertProduct(w)
    PROVE  CapInv'
<1>s. StaffShape /\ ProductShape /\ CapShape BY DEF CapInv
<1>1. PICK l : l = catalogueLoc[w] OBVIOUS
<1>2. HeldInCatalogue(l) /\ cataloguePc[w] = "insert" BY <1>1, <1>s DEF StaffShape, InsertProduct
<1>3. \/ UNCHANGED product
      \/ product[l.id] = NoProduct /\ product' = [product EXCEPT ![l.id] = l.doc]
  BY <1>1 DEF InsertProduct
<1>4. CatalogueDone(w) /\ UNCHANGED branch /\ CapShape' BY <1>s DEF InsertProduct, CapShape
<1>5. /\ StaffShape' /\ cataloguePc'[w] = "idle"
      /\ \A v \in CatalogueStaff : v # w => /\ cataloguePc'[v] = cataloguePc[v]
                                            /\ catalogueLoc'[v] = catalogueLoc[v]
  BY <1>s, <1>4, CatalogueRests, CatalogueFields, CatalogueWalk
<1>6. ProductShape' BY <1>s, <1>2, <1>3 DEF ProductShape, HeldInCatalogue
<1>7. l.doc.via = "form" => w \in Clerks BY <1>1, <1>2 DEF CapInv
<1>8. \A q \in ProductIds : q # l.id => product'[q] = product[q] BY <1>3, <1>s DEF ProductShape
<1>9. ASSUME NEW r \in Branches
      PROVE  Cardinality(FormProducts(r)') + Cardinality(Pending(r)')
                <= branch'[r].granted + Cardinality(Clerks) - 1
  <2>1. Cardinality(FormProducts(r)) + Cardinality(Pending(r)) <= branch[r].granted + Cardinality(Clerks) - 1
    BY DEF CapInv
  <2>4. branch'[r].granted = branch[r].granted /\ branch[r].granted \in Nat BY <1>s, <1>4 DEF CapShape
  <2>2. CASE r = l.doc.of /\ l.doc.via = "form"
    <3>1. w \in Pending(r) BY <2>2, <1>1, <1>2, <1>7 DEF Pending
    <3>2. Pending(r)' = Pending(r) \ {w} BY <1>5 DEF Pending, CatalogueStaff
    <3>3. Cardinality(Pending(r)') = Cardinality(Pending(r)) - 1
      BY <3>1, <3>2, <1>s, FS_RemoveElement, CountsAreFinite
    <3>4. FormProducts(r)' \in SUBSET (FormProducts(r) \cup {l.id})
      BY <1>8, <1>s, <1>6 DEF FormProducts, ProductsOf, Live, ProductShape
    <3>5. /\ IsFiniteSet(FormProducts(r) \cup {l.id})
          /\ Cardinality(FormProducts(r) \cup {l.id}) <= Cardinality(FormProducts(r)) + 1
          /\ Cardinality(FormProducts(r) \cup {l.id}) \in Nat
      <4>1. IsFiniteSet(FormProducts(r)) /\ Cardinality(FormProducts(r)) \in Nat
        BY <1>s, CountsAreFinite
      <4>2. /\ IsFiniteSet(FormProducts(r) \cup {l.id})
            /\ Cardinality(FormProducts(r) \cup {l.id}) =
                  IF l.id \in FormProducts(r) THEN Cardinality(FormProducts(r))
                  ELSE Cardinality(FormProducts(r)) + 1
        BY <4>1, FS_AddElement
      <4> QED BY <4>1, <4>2
    <3>6. Cardinality(FormProducts(r)') <= Cardinality(FormProducts(r)) + 1
      BY <3>4, <3>5, <1>s, <1>6, FS_Subset, CountsAreFinite, CountsAreFiniteLater
    <3> QED BY <3>3, <3>6, <2>1, <2>4, <1>s, <1>6, CountsAreFinite, CountsAreFiniteLater
  <2>3. CASE ~(r = l.doc.of /\ l.doc.via = "form")
    <3>1. FormProducts(r)' \in SUBSET FormProducts(r)
      <4>1. \/ UNCHANGED product
            \/ l.id \in ProductIds => product'[l.id] = l.doc
        BY <1>3, <1>s DEF ProductShape
      <4> QED BY <4>1, <2>3, <1>8, <1>s, <1>6 DEF FormProducts, ProductsOf, Live, ProductShape
    <3>2. Pending(r)' \in SUBSET Pending(r) BY <1>5 DEF Pending, CatalogueStaff
    <3>3. /\ Cardinality(FormProducts(r)') <= Cardinality(FormProducts(r))
          /\ Cardinality(Pending(r)') <= Cardinality(Pending(r))
      BY <3>1, <3>2, <1>s, FS_Subset, CountsAreFinite
    <3> QED BY <3>3, <2>1, <2>4, <1>s, <1>6, CountsAreFinite, CountsAreFiniteLater
  <2> QED BY <2>2, <2>3
<1>10. \A v \in CatalogueStaff :
          cataloguePc'[v] = "insert" /\ catalogueLoc'[v].doc.via = "form" => v \in Clerks
  BY <1>5 DEF CapInv
<1>11. \A v \in CatalogueStaff : cataloguePc'[v] \in Importing => catalogueLoc'[v].doc.via # "form"
  BY <1>5 DEF CapInv, Importing
<1> QED BY <1>4, <1>5, <1>6, <1>9, <1>10, <1>11 DEF CapInv

LEMMA CapChanged ==
    ASSUME CapInv, NEW w \in CatalogueStaff, NEW r \in Branches, ChangeCap(r)
    PROVE  CapInv'
<1>s. ProductShape /\ CapShape BY DEF CapInv
<1>1. PICK n \in Caps :
         branch' = [branch EXCEPT ![r].cap = n,
                                  ![r].granted = IF branch[r].granted < n THEN n ELSE branch[r].granted]
  BY DEF ChangeCap
<1>2. n \in Nat BY CatalogueAssumption
<1>3. Grants
  <2>f. DOMAIN NoBranch = {"phase", "owner", "sign", "cap", "granted"} BY DEF NoBranch
  <2>1. /\ DOMAIN branch' = Branches
        /\ \A b \in Branches : DOMAIN branch'[b] = DOMAIN branch[b]
        /\ \A b \in Branches : b # r => branch'[b] = branch[b]
        /\ branch'[r].cap = n
        /\ branch'[r].granted = IF branch[r].granted < n THEN n ELSE branch[r].granted
    BY <1>1, <1>s, <2>f DEF CapShape
  <2> QED BY <2>1, <1>2, <1>s DEF CapShape, Grants
<1>4. Shrinks BY <1>s, SameShrinks DEF ChangeCap
<1>5. Walks(w) BY DEF Walks, ChangeCap
<1> QED BY <1>3, <1>4, <1>5, CapWalk

(* However its subscription grows, shrinks and lapses, a restaurant has at *)
(* most as many live products from the form of its manager and staff as    *)
(* the cap has ever allowed, and one more for every further handler that   *)
(* creates at the same time (createProduct counts, assertProductCapacity   *)
(* compares, and the insertion comes later).                               *)
THEOREM CapCorrect ==
    ASSUME Clerks # {}
    PROVE  SpecCatalogue => []WithinCapPlusRacers
<1>1. InitCatalogue => CapInv BY CapStart
<1>2. CapInv /\ [NextCatalogue]_catalogueVars => CapInv'
  <2> SUFFICES ASSUME CapInv, [NextCatalogue]_catalogueVars PROVE CapInv'
    OBVIOUS
  <2>s. StaffShape /\ ProductShape /\ CapShape BY DEF CapInv
  <2>1. CASE UNCHANGED catalogueVars
    <3>1. PICK w : w \in CatalogueStaff BY DEF CatalogueStaff
    <3>2. UNCHANGED product /\ UNCHANGED branch /\ UNCHANGED <<cataloguePc, catalogueLoc>>
      BY <2>1 DEF catalogueVars
    <3>3. Shrinks /\ Grants BY <3>2, <2>s, SameShrinks, SameGrants
    <3>4. Walks(w) BY <3>2 DEF Walks
    <3> QED BY <3>1, <3>3, <3>4, CapWalk
  <2>2. ASSUME NEW w \in CatalogueStaff, ChiefStep(w) PROVE CapInv'
    BY <2>2, <2>s, ChiefWalks, ChiefShrinks, StepGrants, CapWalk
  <2>3. ASSUME NEW w \in CatalogueStaff, ClerkStep(w) PROVE CapInv'
    <3>1. CASE ReadForProduct(w) BY <3>1, CapCounted
    <3>2. CASE InsertProduct(w) BY <3>2, CapInserted
    <3>3. CASE ~ReadForProduct(w) /\ ~InsertProduct(w)
      <4>1. cataloguePc[w] \in Importing => catalogueLoc[w].doc.via # "form" BY DEF CapInv
      <4>2. Walks(w) BY <2>3, <3>3, <4>1, <2>s, ClerkWalks
      <4>3. Shrinks BY <2>3, <3>3, <4>1, <2>s, ClerkShrinks
      <4>4. Grants BY <2>3, <2>s, StepGrants
      <4> QED BY <4>2, <4>3, <4>4, CapWalk
    <3> QED BY <3>1, <3>2, <3>3
  <2>4. ASSUME NEW r \in Branches, ChangeCap(r) PROVE CapInv'
    <3>1. PICK w : w \in CatalogueStaff BY DEF CatalogueStaff
    <3> QED BY <2>4, <3>1, CapChanged
  <2> QED BY <2>1, <2>2, <2>3, <2>4 DEF NextCatalogue
<1>3. CapInv => WithinCapPlusRacers
  <2> SUFFICES ASSUME CapInv, NEW r \in Branches
               PROVE  Cardinality(FormProducts(r)) <= branch[r].granted + Cardinality(Clerks) - 1
    BY DEF WithinCapPlusRacers
  <2>1. Cardinality(FormProducts(r)) + Cardinality(Pending(r)) <= branch[r].granted + Cardinality(Clerks) - 1
    BY DEF CapInv
  <2>2. ProductShape /\ branch[r].granted \in Nat BY DEF CapInv, CapShape
  <2> QED BY <2>1, <2>2, CountsAreFinite
<1> QED BY <1>1, <1>2, <1>3, PTL DEF SpecCatalogue

-------------------------------------------------------------------------------
(* What refers to what, where requests follow one another.                 *)
DocShape ==
    /\ ProductShape
    /\ DOMAIN person = People /\ \A u \in People : DOMAIN person[u] = {"deleted", "at"}
    /\ DOMAIN branch = Branches /\ \A r \in Branches : DOMAIN branch[r] = {"phase", "owner", "sign", "cap", "granted"}
    /\ DOMAIN section = Sections /\ \A c \in Sections : DOMAIN section[c] = {"phase", "default"}
    /\ DOMAIN stuff = Stuffs /\ \A i \in Stuffs : DOMAIN stuff[i] = {"phase", "of"}
    /\ DOMAIN recipe = ProductIds /\ \A p \in ProductIds : DOMAIN recipe[p] = {"of", "uses"}

OwnersLive == \A r \in Live(branch) : branch[r].owner \in People /\ ~person[branch[r].owner].deleted

(* A cascade leaves the products of the restaurant it deletes for its      *)
(* second write, and their recipes for its fourth.                         *)
ProductsPlaced(label, l) ==
    \A p \in Live(product) :
        /\ product[p].section \in Live(section)
        /\ \/ product[p].via = "file" \/ product[p].of \in Live(branch)
           \/ label = "dropProducts" /\ product[p].of = l.branch

Servable(p) == /\ p \in Live(product) /\ recipe[p].of = product[p].of
               /\ \A i \in recipe[p].uses : i \in Live(stuff) /\ stuff[i].of = product[p].of

RecipesServable(label, l) ==
    \A p \in ProductIds : recipe[p] # NoRecipe /\ product[p].via # "move" =>
        \/ Servable(p)
        \/ label = "deleteRecipe" /\ p = l.id
        \/ label \in {"dropStuffs", "dropRecipes"} /\ recipe[p].of = l.branch

(* What a handler has read stays true until it writes. *)
HeldSound(label, l) ==
    /\ label \in {"open", "rewrite"} => l.user \in People /\ ~person[l.user].deleted
    /\ label = "insert" => l.doc.of \in Live(branch) /\ l.doc.section \in Live(section)
    /\ label = "update" => /\ l.section \in Live(section) \cup {Nobody}
                           /\ l.branch \in Live(branch) \cup {Nobody}
    /\ label = "importProduct" => l.section \in Live(section)
    /\ label \in {"importSection", "importProduct"} => l.doc = NoProduct \/ l.doc.via = "file"
    /\ label = "deleteUser" => \A r \in Live(branch) : branch[r].owner # l.user
    /\ label = "ensureDefault" => l.section \in Live(section) /\ ~section[l.section].default
    /\ label = "reassign" => l.id \in Live(section) /\ l.id # l.section
    /\ label = "deleteSection" => \A p \in ProductIds : product[p].section # l.section
    /\ label = "writeRecipe" => /\ l.id \in Live(product) /\ l.branch = product[l.id].of
                                /\ \A i \in l.todo : i \in Live(stuff) /\ stuff[i].of = product[l.id].of
    /\ label = "deleteStuff" => \A p \in ProductIds :
          recipe[p] # NoRecipe /\ product[p].via # "move" => l.id \notin recipe[p].uses

Sound(label, l) ==
    OwnersLive /\ ProductsPlaced(label, l) /\ RecipesServable(label, l) /\ HeldSound(label, l)

SoundAt(w) == Sound(cataloguePc[w], catalogueLoc[w])

Documents == <<person, branch, section, product, recipe, stuff>>

(* Labels that no exception and no fact read goes with. *)
PlainLabels == {"idle", "assign", "release", "renameSlugs", "renameSlug", "freeOwner"}

Cascading == {"dropProducts", "dropStuffs", "dropRecipes", "deleteRecipe"}

LEMMA DocFields ==
    ASSUME DocShape
    PROVE  /\ \A u \in People : "deleted" \in DOMAIN person[u] /\ "at" \in DOMAIN person[u]
           /\ \A p \in ProductIds : DOMAIN product[p] = {"phase", "of", "title", "slug", "section", "available", "via"}
BY CatalogueFields DEF DocShape, ProductShape

LEMMA HeldFields ==
    ASSUME NEW l, HeldInCatalogue(l)
    PROVE  /\ DOMAIN l = {"id", "branch", "user", "former", "section", "doc", "todo"}
           /\ DOMAIN l.doc = {"phase", "of", "title", "slug", "section", "available", "via"}
BY CatalogueFields DEF HeldInCatalogue

LEMMA SoundLands ==
    ASSUME StaffShape, DocShape', NEW w \in CatalogueStaff, NEW label, NEW held,
           HeldInCatalogue(held), CatalogueGo(w, label, held),
           OwnersLive', ProductsPlaced(label, held)', RecipesServable(label, held)',
           HeldSound(label, held)'
    PROVE  DocShape' /\ SoundAt(w)'
<1>1. cataloguePc'[w] = label /\ catalogueLoc'[w] = held BY CatalogueWalk
<1>2. ProductsPlaced(cataloguePc[w], catalogueLoc[w])' BY <1>1 DEF ProductsPlaced
<1>3. RecipesServable(cataloguePc[w], catalogueLoc[w])' BY <1>1 DEF RecipesServable
<1>4. HeldSound(cataloguePc[w], catalogueLoc[w])' BY <1>1 DEF HeldSound
<1> QED BY <1>2, <1>3, <1>4 DEF SoundAt, Sound

LEMMA SoundStays ==
    ASSUME NEW w \in CatalogueStaff, NEW label, NEW held,
           cataloguePc[w] = label, catalogueLoc[w] = held, UNCHANGED <<cataloguePc, catalogueLoc>>,
           DocShape', OwnersLive', ProductsPlaced(label, held)', RecipesServable(label, held)',
           HeldSound(label, held)'
    PROVE  DocShape' /\ SoundAt(w)'
<1>1. cataloguePc'[w] = label /\ catalogueLoc'[w] = held OBVIOUS
<1>2. ProductsPlaced(cataloguePc[w], catalogueLoc[w])' BY <1>1 DEF ProductsPlaced
<1>3. RecipesServable(cataloguePc[w], catalogueLoc[w])' BY <1>1 DEF RecipesServable
<1>4. HeldSound(cataloguePc[w], catalogueLoc[w])' BY <1>1 DEF HeldSound
<1> QED BY <1>2, <1>3, <1>4 DEF SoundAt, Sound

(* Nothing a reference is made of changes: no document but a cap. *)
Settled == /\ UNCHANGED <<person, section, product, recipe, stuff>>
           /\ UNCHANGED branch \/ \E r \in Branches : ChangeCap(r)

LEMMA BranchesSettled ==
    ASSUME DocShape, Settled
    PROVE  /\ DOMAIN branch' = Branches
           /\ \A r \in Branches : /\ DOMAIN branch'[r] = {"phase", "owner", "sign", "cap", "granted"}
                                  /\ branch'[r].phase = branch[r].phase
                                  /\ branch'[r].owner = branch[r].owner
<1>1. CASE UNCHANGED branch BY <1>1 DEF DocShape
<1>2. ASSUME NEW r \in Branches, ChangeCap(r)
      PROVE  /\ DOMAIN branch' = Branches
             /\ \A b \in Branches : /\ DOMAIN branch'[b] = {"phase", "owner", "sign", "cap", "granted"}
                                    /\ branch'[b].phase = branch[b].phase
                                    /\ branch'[b].owner = branch[b].owner
  <2>1. \E n, m : branch' = [branch EXCEPT ![r].cap = n, ![r].granted = m] BY <1>2 DEF ChangeCap
  <2>2. PICK n, m : branch' = [branch EXCEPT ![r].cap = n, ![r].granted = m] BY <2>1
  <2> QED BY <2>2 DEF DocShape
<1> QED BY <1>1, <1>2 DEF Settled

LEMMA DocumentsKept ==
    ASSUME DocShape, Settled, NEW label, NEW l
    PROVE  /\ DocShape'
           /\ OwnersLive => OwnersLive'
           /\ ProductsPlaced(label, l) => ProductsPlaced(label, l)'
           /\ RecipesServable(label, l) => RecipesServable(label, l)'
           /\ HeldSound(label, l) => HeldSound(label, l)'
<1>0. UNCHANGED person /\ UNCHANGED section /\ UNCHANGED product
      /\ UNCHANGED recipe /\ UNCHANGED stuff
  BY DEF Settled
<1>b. /\ DOMAIN branch' = Branches /\ DOMAIN branch = Branches
      /\ \A r \in Branches : /\ DOMAIN branch'[r] = {"phase", "owner", "sign", "cap", "granted"}
                             /\ branch'[r].phase = branch[r].phase
                             /\ branch'[r].owner = branch[r].owner
  BY BranchesSettled DEF DocShape
<1>l. /\ Live(branch)' = Live(branch) /\ Live(section)' = Live(section)
      /\ Live(product)' = Live(product) /\ Live(stuff)' = Live(stuff) /\ Live(branch) \subseteq Branches
  BY <1>0, <1>b DEF Live
<1>1. DocShape'
  <2>1. ProductShape' BY <1>0 DEF DocShape, ProductShape
  <2> QED BY <1>0, <1>b, <2>1 DEF DocShape
<1>2. OwnersLive => OwnersLive' BY <1>0, <1>b, <1>l DEF OwnersLive
<1>3. ProductsPlaced(label, l) => ProductsPlaced(label, l)' BY <1>0, <1>l DEF ProductsPlaced
<1>4. RecipesServable(label, l) => RecipesServable(label, l)'
  BY <1>0, <1>l DEF RecipesServable, Servable
<1>5. HeldSound(label, l) => HeldSound(label, l)'
  <2>1. \A r \in Live(branch) : branch'[r].owner = branch[r].owner BY <1>b, <1>l
  <2> QED BY <1>0, <1>l, <2>1 DEF HeldSound
<1> QED BY <1>1, <1>2, <1>3, <1>4, <1>5

LEMMA NothingPending ==
    ASSUME NEW label, NEW l, label \notin Cascading,
           ProductsPlaced(label, l), RecipesServable(label, l), NEW other, NEW m
    PROVE  ProductsPlaced(other, m) /\ RecipesServable(other, m)
<1>1. label \notin {"dropProducts", "dropStuffs", "dropRecipes", "deleteRecipe"} BY DEF Cascading
<1>2. ProductsPlaced(other, m) BY <1>1 DEF ProductsPlaced
<1>3. RecipesServable(other, m) BY <1>1 DEF RecipesServable
<1> QED BY <1>2, <1>3

LEMMA PlainSound ==
    ASSUME NEW label \in PlainLabels, NEW l PROVE HeldSound(label, l) /\ HeldSound(label, l)'
BY DEF HeldSound, PlainLabels

(* A handler that only reads. *)
LEMMA ReadSound ==
    ASSUME StaffShape, DocShape, NEW w \in CatalogueStaff, SoundAt(w), UNCHANGED Documents,
           cataloguePc[w] \notin Cascading,
           NEW label, NEW held, HeldInCatalogue(held), CatalogueGo(w, label, held),
           HeldSound(label, held)
    PROVE  DocShape' /\ SoundAt(w)'
<1>1. /\ OwnersLive /\ ProductsPlaced(label, held) /\ RecipesServable(label, held)
  <2>1. PICK lab, l : lab = cataloguePc[w] /\ l = catalogueLoc[w] OBVIOUS
  <2>2. Sound(lab, l) BY <2>1 DEF SoundAt
  <2> QED BY <2>1, <2>2, NothingPending DEF Sound
<1>2. /\ DocShape' /\ OwnersLive' /\ ProductsPlaced(label, held)' /\ RecipesServable(label, held)'
      /\ HeldSound(label, held)'
  <2>1. Settled BY DEF Settled, Documents
  <2> QED BY <1>1, <2>1, DocumentsKept
<1> QED BY <1>2, SoundLands

LEMMA RestSound ==
    ASSUME StaffShape, DocShape, NEW w \in CatalogueStaff, SoundAt(w), UNCHANGED Documents,
           cataloguePc[w] \notin Cascading, CatalogueDone(w)
    PROVE  DocShape' /\ SoundAt(w)'
<1>1. HeldSound("idle", CatalogueNothing) BY PlainSound DEF PlainLabels
<1> QED BY <1>1, CatalogueRests, CatalogueFields, ReadSound

-------------------------------------------------------------------------------
(* The handlers that read. *)
LEMMA ChiefReads ==
    ASSUME StaffShape, DocShape, NEW w \in CatalogueStaff, SoundAt(w),
           ReadNewOwner(w) \/ ReadBranch(w) \/ ReadLeaver(w) \/ ReadSection(w)
    PROVE  DocShape' /\ SoundAt(w)'
<1>n. HeldInCatalogue(CatalogueNothing) BY NothingHeld, Zenon
<1>i. cataloguePc[w] \notin Cascading /\ UNCHANGED Documents
  BY DEF ReadNewOwner, ReadBranch, ReadLeaver, ReadSection, Cascading, Documents
<1>o. OwnersLive BY DEF SoundAt, Sound
<1>1. CASE ReadNewOwner(w)
  <2>1. PICK r, u, s :
           /\ u \in People /\ FreeFor(u, r)
           /\ CatalogueGo(w, "open", [CatalogueNothing EXCEPT !.branch = r, !.user = u, !.id = s])
    BY <1>1 DEF ReadNewOwner
  <2>2. PICK held : held = [CatalogueNothing EXCEPT !.branch = r, !.user = u, !.id = s] OBVIOUS
  <2>3. HeldInCatalogue(held) /\ held.user = u
    BY <2>2, <1>n, CatalogueFields DEF HeldInCatalogue
  <2>4. HeldSound("open", held) BY <2>1, <2>3 DEF HeldSound, FreeFor
  <2> QED BY <2>1, <2>2, <2>3, <2>4, <1>i, ReadSound
<1>2. CASE ReadBranch(w)
  <2>1. PICK r, u, s, f, t :
           /\ r \in Live(branch) /\ u \in People
           /\ u # branch[r].owner => FreeFor(u, r)
           /\ CatalogueGo(w, "rewrite", [CatalogueNothing EXCEPT
                !.branch = r, !.user = u, !.former = f, !.id = s, !.doc.title = t])
    BY <1>2 DEF ReadBranch
  <2>2. PICK held : held = [CatalogueNothing EXCEPT
                !.branch = r, !.user = u, !.former = f, !.id = s, !.doc.title = t] OBVIOUS
  <2>3. HeldInCatalogue(held) /\ held.user = u
    <3>1. DOMAIN held.doc = DOMAIN NoProduct
      BY <2>2, CatalogueFields
    <3> QED BY <2>2, <3>1, <1>n, CatalogueFields DEF HeldInCatalogue
  <2>4. u \in People /\ ~person[u].deleted BY <2>1, <1>o DEF OwnersLive, FreeFor
  <2>5. HeldSound("rewrite", held) BY <2>4, <2>3 DEF HeldSound
  <2> QED BY <2>1, <2>2, <2>3, <2>5, <1>i, ReadSound
<1>3. CASE ReadLeaver(w)
  <2>1. PICK u \in People :
           /\ \A r \in Live(branch) : branch[r].owner # u
           /\ CatalogueGo(w, "deleteUser", [CatalogueNothing EXCEPT !.user = u])
    BY <1>3 DEF ReadLeaver
  <2>2. PICK held : held = [CatalogueNothing EXCEPT !.user = u] OBVIOUS
  <2>3. HeldInCatalogue(held) /\ held.user = u
    BY <2>2, <1>n, CatalogueFields DEF HeldInCatalogue
  <2>4. HeldSound("deleteUser", held) BY <2>1, <2>3 DEF HeldSound
  <2> QED BY <2>1, <2>2, <2>3, <2>4, <1>i, ReadSound
<1>4. CASE ReadSection(w)
  <2>1. PICK c \in Live(section) :
           /\ ~section[c].default
           /\ CatalogueGo(w, "ensureDefault", [CatalogueNothing EXCEPT !.section = c])
    BY <1>4 DEF ReadSection
  <2>2. PICK held : held = [CatalogueNothing EXCEPT !.section = c] OBVIOUS
  <2>3. HeldInCatalogue(held) /\ held.section = c
    BY <2>2, <1>n, CatalogueFields DEF HeldInCatalogue
  <2>4. HeldSound("ensureDefault", held) BY <2>1, <2>3 DEF HeldSound
  <2> QED BY <2>1, <2>2, <2>3, <2>4, <1>i, ReadSound
<1> QED BY <1>1, <1>2, <1>3, <1>4

LEMMA ClerkReads ==
    ASSUME StaffShape, DocShape, NEW w \in CatalogueStaff, SoundAt(w),
           ReadForProduct(w) \/ ReadProduct(w) \/ ReadMenuRow(w) \/ ReadRecipe(w) \/ ReadStuff(w)
    PROVE  DocShape' /\ SoundAt(w)'
<1>n. HeldInCatalogue(CatalogueNothing) BY NothingHeld
<1>i. cataloguePc[w] = "idle" /\ cataloguePc[w] \notin Cascading /\ UNCHANGED Documents
  BY DEF ReadForProduct, ReadProduct, ReadMenuRow, ReadRecipe, ReadStuff, Cascading, Documents
<1>s. PICK l : l = catalogueLoc[w] /\ ProductsPlaced("idle", l) /\ RecipesServable("idle", l)
  BY <1>i DEF SoundAt, Sound
<1>f. \A p \in ProductIds : DOMAIN product[p] = {"phase", "of", "title", "slug", "section", "available", "via"}
  BY DocFields
<1>1. CASE ReadForProduct(w)
  <2>1. PICK p, t, c, r, via :
           /\ c \in Live(section) /\ r \in Live(branch)
           /\ CatalogueGo(w, "insert", [CatalogueNothing EXCEPT !.id = p, !.doc = Described(r, t, c, via)])
    BY <1>1 DEF ReadForProduct
  <2>2. PICK doc : doc = Described(r, t, c, via) OBVIOUS
  <2>3. DOMAIN doc = DOMAIN NoProduct /\ doc.of = r /\ doc.section = c
    BY <2>2, DescribedFields
  <2>4. PICK held : held = [CatalogueNothing EXCEPT !.id = p, !.doc = doc] OBVIOUS
  <2>5. HeldInCatalogue(held) /\ held.doc = doc BY <2>3, <2>4, DocHeld
  <2>6. HeldSound("insert", held) BY <2>1, <2>3, <2>5 DEF HeldSound
  <2> QED BY <2>1, <2>2, <2>4, <2>5, <2>6, <1>i, ReadSound
<1>2. CASE ReadProduct(w)
  <2>1. PICK p, t, c, r, slug :
           /\ c \in Live(section) \cup {Nobody} /\ r \in Live(branch) \cup {Nobody}
           /\ CatalogueGo(w, "update", [CatalogueNothing EXCEPT
                !.id = p, !.branch = r, !.section = c, !.doc.title = t, !.doc.slug = slug])
    BY <1>2, ProductRead, Zenon
  <2>2. PICK held : held = [CatalogueNothing EXCEPT
                !.id = p, !.branch = r, !.section = c, !.doc.title = t, !.doc.slug = slug] OBVIOUS
  <2>3. HeldInCatalogue(held) /\ held.branch = r /\ held.section = c
    BY <2>2, <1>n, CatalogueFields DEF HeldInCatalogue
  <2>4. HeldSound("update", held) BY <2>1, <2>3 DEF HeldSound
  <2> QED BY <2>1, <2>2, <2>3, <2>4, <1>i, ReadSound
<1>5. CASE ReadMenuRow(w)
  <2>1. PICK c, p, doc :
           /\ c \in Live(section) \cup {Nobody}
           /\ DOMAIN doc = DOMAIN NoProduct
           /\ doc = NoProduct \/ doc.via = "file"
           /\ CatalogueGo(w, IF c = Nobody THEN "importSection" ELSE "importProduct",
                          [CatalogueNothing EXCEPT !.id = p, !.section = c, !.doc = doc])
    BY <1>5, MenuRowRead
  <2>2. PICK held : held = [CatalogueNothing EXCEPT !.id = p, !.section = c, !.doc = doc] OBVIOUS
  <2>3. PICK label : label = IF c = Nobody THEN "importSection" ELSE "importProduct" OBVIOUS
  <2>4. HeldInCatalogue(held) /\ held.doc = doc /\ held.section = c
    BY <2>1, <2>2, <1>n, CatalogueFields DEF HeldInCatalogue
  <2>5. HeldSound(label, held)
    <3>1. label = "importProduct" => c \in Live(section) BY <2>1, <2>3
    <3> QED BY <3>1, <2>1, <2>3, <2>4 DEF HeldSound
  <2> QED BY <2>1, <2>2, <2>3, <2>4, <2>5, <1>i, ReadSound
<1>3. CASE ReadRecipe(w)
  <2>1. PICK p \in Live(product), S \in SUBSET Live(stuff), via \in {"form", "file"} :
           /\ \A i \in S : stuff[i].of = product[p].of
           /\ CatalogueGo(w, "writeRecipe", [CatalogueNothing EXCEPT
                !.id = p, !.branch = product[p].of, !.doc.via = via, !.todo = S])
    BY <1>3 DEF ReadRecipe
  <2>r. PICK r : r = product[p].of OBVIOUS
  <2>2. PICK held : held = [CatalogueNothing EXCEPT
                !.id = p, !.branch = r, !.doc.via = via, !.todo = S] OBVIOUS
  <2>3. HeldInCatalogue(held) /\ held.id = p /\ held.todo = S /\ held.branch = r
    BY <2>2, <1>n, CatalogueFields DEF HeldInCatalogue
  <2>4. HeldSound("writeRecipe", held) BY <2>1, <2>r, <2>3 DEF HeldSound
  <2> QED BY <2>1, <2>r, <2>2, <2>3, <2>4, <1>i, ReadSound
<1>4. CASE ReadStuff(w)
  <2>1. PICK i \in Live(stuff) :
           /\ \A p \in ProductIds : recipe[p].of = stuff[i].of => i \notin recipe[p].uses
           /\ CatalogueGo(w, "deleteStuff", [CatalogueNothing EXCEPT !.id = i])
    BY <1>4 DEF ReadStuff
  <2>2. PICK held : held = [CatalogueNothing EXCEPT !.id = i] OBVIOUS
  <2>3. HeldInCatalogue(held) /\ held.id = i
    BY <2>2, <1>n, CatalogueFields DEF HeldInCatalogue
  <2>4. \A p \in ProductIds : recipe[p] # NoRecipe /\ product[p].via # "move" => i \notin recipe[p].uses
    BY <2>1, <1>s DEF RecipesServable, Servable
  <2>5. HeldSound("deleteStuff", held) BY <2>4, <2>3 DEF HeldSound
  <2> QED BY <2>1, <2>2, <2>3, <2>5, <1>i, ReadSound
<1> QED BY <1>1, <1>2, <1>3, <1>4, <1>5

-------------------------------------------------------------------------------
(* The writes to people and restaurants. *)
LEMMA PeopleKept ==
    ASSUME DocShape, DocShape', UNCHANGED <<branch, section, product, recipe, stuff>>,
           \A u \in People : person'[u].deleted = person[u].deleted,
           OwnersLive, NEW label, NEW l, label \notin Cascading,
           ProductsPlaced(label, l), RecipesServable(label, l), NEW other, NEW m
    PROVE  OwnersLive' /\ ProductsPlaced(other, m)' /\ RecipesServable(other, m)'
<1>1. OwnersLive' BY DEF OwnersLive, Live
<1>2. ProductsPlaced(other, m) /\ RecipesServable(other, m) BY NothingPending
<1>3. ProductsPlaced(other, m)' BY <1>2 DEF ProductsPlaced, Live
<1>4. RecipesServable(other, m)' BY <1>2 DEF RecipesServable, Servable, Live
<1> QED BY <1>1, <1>3, <1>4

LEMMA PersonAt ==
    ASSUME DocShape, NEW u, NEW r, UNCHANGED <<branch, section, product, recipe, stuff>>,
           person' = [person EXCEPT ![u].at = r] \/ person' = person
    PROVE  DocShape' /\ \A v \in People : person'[v].deleted = person[v].deleted
<1>0. UNCHANGED branch /\ UNCHANGED section /\ UNCHANGED product /\ UNCHANGED recipe /\ UNCHANGED stuff
  OBVIOUS
<1>1. /\ DOMAIN person' = People
      /\ \A v \in People : DOMAIN person'[v] = {"deleted", "at"} /\ person'[v].deleted = person[v].deleted
  BY DEF DocShape
<1> QED BY <1>0, <1>1 DEF DocShape, ProductShape

LEMMA PeopleSound ==
    ASSUME StaffShape, DocShape, NEW w \in CatalogueStaff, SoundAt(w),
           AssignOwner(w) \/ ReleaseFormer(w) \/ FreeOwner(w)
    PROVE  DocShape' /\ SoundAt(w)'
<1>1. PICK l : l = catalogueLoc[w] OBVIOUS
<1>2. PICK label : label = cataloguePc[w] OBVIOUS
<1>3. /\ OwnersLive /\ ProductsPlaced(label, l) /\ RecipesServable(label, l)
  BY <1>1, <1>2 DEF SoundAt, Sound
<1>4. label \notin Cascading /\ UNCHANGED <<branch, section, product, recipe, stuff>>
  BY <1>2 DEF AssignOwner, ReleaseFormer, FreeOwner, Cascading
<1>5. \E u, r : person' = [person EXCEPT ![u].at = r] \/ person' = person
  BY DEF AssignOwner, ReleaseFormer, FreeOwner
<1>6. DocShape' /\ \A v \in People : person'[v].deleted = person[v].deleted
  BY <1>4, <1>5, PersonAt
<1>7. HeldInCatalogue(l) BY <1>1 DEF StaffShape
<1>8. PICK other, held : other \in PlainLabels /\ HeldInCatalogue(held) /\ CatalogueGo(w, other, held)
  BY <1>1, <1>7, CatalogueRests, CatalogueFields
     DEF AssignOwner, ReleaseFormer, FreeOwner, PlainLabels
<1>9. OwnersLive' /\ ProductsPlaced(other, held)' /\ RecipesServable(other, held)'
  BY <1>3, <1>4, <1>6, <1>8, PeopleKept
<1>10. HeldSound(other, held)' BY <1>8, PlainSound
<1> QED BY <1>6, <1>8, <1>9, <1>10, SoundLands

LEMMA MoveSound ==
    ASSUME StaffShape, DocShape, NEW w \in CatalogueStaff, SoundAt(w), MovePerson(w)
    PROVE  DocShape' /\ SoundAt(w)'
<1>1. PICK l : l = catalogueLoc[w] OBVIOUS
<1>2. cataloguePc[w] = "idle" /\ UNCHANGED <<branch, section, product, recipe, stuff>>
  BY DEF MovePerson
<1>3. /\ OwnersLive /\ ProductsPlaced("idle", l) /\ RecipesServable("idle", l)
  BY <1>1, <1>2 DEF SoundAt, Sound
<1>5. \E u, r : person' = [person EXCEPT ![u].at = r] \/ person' = person
  BY DEF MovePerson
<1>6. DocShape' /\ \A v \in People : person'[v].deleted = person[v].deleted
  BY <1>2, <1>5, PersonAt
<1>7. OwnersLive' /\ ProductsPlaced("idle", l)' /\ RecipesServable("idle", l)'
  BY <1>2, <1>3, <1>6, PeopleKept DEF Cascading
<1>8. HeldSound("idle", l)' BY PlainSound DEF PlainLabels
<1>9. UNCHANGED <<cataloguePc, catalogueLoc>> BY DEF MovePerson
<1> QED BY <1>1, <1>2, <1>6, <1>7, <1>8, <1>9, SoundStays

LEMMA LeaverSound ==
    ASSUME StaffShape, DocShape, NEW w \in CatalogueStaff, SoundAt(w), DeletePerson(w)
    PROVE  DocShape' /\ SoundAt(w)'
<1>1. PICK l : l = catalogueLoc[w] OBVIOUS
<1>2. cataloguePc[w] = "deleteUser" /\ UNCHANGED <<branch, section, product, recipe, stuff>>
  BY DEF DeletePerson
<1>0. UNCHANGED branch /\ UNCHANGED section /\ UNCHANGED product /\ UNCHANGED recipe /\ UNCHANGED stuff
  BY <1>2
<1>3. /\ OwnersLive /\ ProductsPlaced("deleteUser", l) /\ RecipesServable("deleteUser", l)
      /\ HeldSound("deleteUser", l)
  BY <1>1, <1>2 DEF SoundAt, Sound
<1>4. person' = [person EXCEPT ![l.user] = [deleted |-> TRUE, at |-> Nobody]]
  BY <1>1 DEF DeletePerson
<1>5. /\ DOMAIN person' = People
      /\ \A v \in People : DOMAIN person'[v] = {"deleted", "at"}
      /\ \A v \in People : v # l.user => person'[v] = person[v]
  BY <1>4 DEF DocShape
<1>6. DocShape' BY <1>0, <1>5 DEF DocShape, ProductShape
<1>7. OwnersLive' BY <1>0, <1>3, <1>5 DEF OwnersLive, HeldSound, Live
<1>8. ProductsPlaced("idle", CatalogueNothing) /\ RecipesServable("idle", CatalogueNothing)
  BY <1>3, NothingPending DEF Cascading
<1>9. ProductsPlaced("idle", CatalogueNothing)' BY <1>0, <1>8 DEF ProductsPlaced, Live
<1>10. RecipesServable("idle", CatalogueNothing)'
  BY <1>0, <1>8 DEF RecipesServable, Servable, Live
<1>11. HeldSound("idle", CatalogueNothing)' BY PlainSound DEF PlainLabels
<1>12. CatalogueGo(w, "idle", CatalogueNothing) BY CatalogueRests DEF DeletePerson
<1> QED BY <1>6, <1>7, <1>9, <1>10, <1>11, <1>12, CatalogueFields, SoundLands

-------------------------------------------------------------------------------
(* The writes to restaurants and categories. *)
LEMMA OpenSound ==
    ASSUME StaffShape, DocShape, NEW w \in CatalogueStaff, SoundAt(w),
           OpenBranch(w) \/ RewriteBranch(w)
    PROVE  DocShape' /\ SoundAt(w)'
<1>1. PICK l : l = catalogueLoc[w] OBVIOUS
<1>2. PICK label : label = cataloguePc[w] /\ label \in {"open", "rewrite"}
  BY DEF OpenBranch, RewriteBranch
<1>3. /\ OwnersLive /\ ProductsPlaced(label, l) /\ RecipesServable(label, l)
      /\ HeldSound(label, l)
  BY <1>1, <1>2 DEF SoundAt, Sound
<1>h. HeldInCatalogue(l) BY <1>1 DEF StaffShape
<1>0. UNCHANGED person /\ UNCHANGED section /\ UNCHANGED product /\ UNCHANGED recipe /\ UNCHANGED stuff
  BY DEF OpenBranch, RewriteBranch
<1>4. \/ UNCHANGED branch
      \/ branch' = [branch EXCEPT ![l.branch].phase = "live", ![l.branch].owner = l.user,
                                  ![l.branch].sign = l.id]
      \/ branch' = [branch EXCEPT ![l.branch].owner = l.user, ![l.branch].sign = l.id]
  BY <1>1 DEF OpenBranch, RewriteBranch
<1>5. /\ DOMAIN branch' = Branches
      /\ \A r \in Branches : DOMAIN branch'[r] = {"phase", "owner", "sign", "cap", "granted"}
      /\ \A r \in Branches : branch[r].phase = "live" => branch'[r].phase = "live"
      /\ \A r \in Branches : \/ branch'[r].owner = l.user
                             \/ branch'[r].owner = branch[r].owner /\ branch'[r].phase = branch[r].phase
  <2>1. CASE UNCHANGED branch BY <2>1 DEF DocShape
  <2>2. CASE branch' = [branch EXCEPT ![l.branch].phase = "live", ![l.branch].owner = l.user,
                                      ![l.branch].sign = l.id]
    BY <2>2 DEF DocShape
  <2>3. CASE branch' = [branch EXCEPT ![l.branch].owner = l.user, ![l.branch].sign = l.id]
    BY <2>3 DEF DocShape
  <2> QED BY <1>4, <2>1, <2>2, <2>3
<1>6. DocShape' BY <1>0, <1>5 DEF DocShape, ProductShape
<1>7. l.user \in People /\ ~person[l.user].deleted BY <1>2, <1>3 DEF HeldSound
<1>8. OwnersLive' BY <1>0, <1>3, <1>5, <1>7 DEF OwnersLive, Live, DocShape
<1>9. PICK other, held : other \in PlainLabels /\ HeldInCatalogue(held) /\ CatalogueGo(w, other, held)
  <2>1. CASE CatalogueDone(w)
    BY <2>1, CatalogueRests, CatalogueFields DEF PlainLabels
  <2>2. CASE CatalogueGo(w, "assign", l) \/ CatalogueGo(w, "release", l) \/ CatalogueGo(w, "renameSlugs", l)
    BY <2>2, <1>h DEF PlainLabels
  <2>3. \/ CatalogueDone(w) \/ CatalogueGo(w, "assign", l)
        \/ CatalogueGo(w, IF l.user # l.former THEN "release" ELSE "renameSlugs", l)
    BY <1>1 DEF OpenBranch, RewriteBranch
  <2> QED BY <2>1, <2>2, <2>3
<1>10. ProductsPlaced(other, held) /\ RecipesServable(other, held)
  BY <1>2, <1>3, NothingPending DEF Cascading
<1>11. ProductsPlaced(other, held)'
  BY <1>0, <1>10, <1>5 DEF ProductsPlaced, Live, DocShape
<1>12. RecipesServable(other, held)' BY <1>0, <1>10 DEF RecipesServable, Servable, Live
<1>13. HeldSound(other, held)' BY <1>9, PlainSound
<1> QED BY <1>6, <1>8, <1>9, <1>11, <1>12, <1>13, SoundLands

LEMMA CloseSound ==
    ASSUME StaffShape, DocShape, NEW w \in CatalogueStaff, SoundAt(w), CloseBranch(w)
    PROVE  DocShape' /\ SoundAt(w)'
<1>1. PICK l : l = catalogueLoc[w] OBVIOUS
<1>2. /\ OwnersLive /\ ProductsPlaced("idle", l) /\ RecipesServable("idle", l)
  BY <1>1 DEF SoundAt, Sound, CloseBranch
<1>0. UNCHANGED person /\ UNCHANGED section /\ UNCHANGED product /\ UNCHANGED recipe /\ UNCHANGED stuff
  BY DEF CloseBranch
<1>3. PICK r, f : /\ r \in Live(branch)
                  /\ branch' = [branch EXCEPT ![r].phase = "deleted", ![r].owner = Nobody]
                  /\ CatalogueGo(w, "dropProducts",
                                 [CatalogueNothing EXCEPT !.branch = r, !.former = f])
  BY DEF CloseBranch
<1>4. PICK held : held = [CatalogueNothing EXCEPT !.branch = r, !.former = f] OBVIOUS
<1>5. HeldInCatalogue(held) /\ held.branch = r BY <1>4, CatalogueFields DEF HeldInCatalogue
<1>6. /\ DOMAIN branch' = Branches
      /\ \A s \in Branches : DOMAIN branch'[s] = {"phase", "owner", "sign", "cap", "granted"}
      /\ \A s \in Branches : s # r => branch'[s] = branch[s]
      /\ r \in Branches /\ branch'[r].phase = "deleted"
  BY <1>3 DEF DocShape, Live
<1>7. DocShape' BY <1>0, <1>6 DEF DocShape, ProductShape
<1>8. OwnersLive' BY <1>0, <1>2, <1>6 DEF OwnersLive, Live, DocShape
<1>9. ProductsPlaced("dropProducts", held)'
  BY <1>0, <1>2, <1>5, <1>6 DEF ProductsPlaced, Live, DocShape
<1>10. RecipesServable("dropProducts", held)'
  <2>1. RecipesServable("dropProducts", held) BY <1>2, NothingPending DEF Cascading
  <2> QED BY <1>0, <2>1 DEF RecipesServable, Servable, Live
<1>11. HeldSound("dropProducts", held)' BY DEF HeldSound
<1> QED BY <1>3, <1>4, <1>5, <1>7, <1>8, <1>9, <1>10, <1>11, SoundLands

LEMMA WriteSectionSound ==
    ASSUME StaffShape, DocShape, NEW w \in CatalogueStaff, SoundAt(w), WriteSection(w)
    PROVE  DocShape' /\ SoundAt(w)'
<1>1. PICK l : l = catalogueLoc[w] OBVIOUS
<1>2. /\ OwnersLive /\ ProductsPlaced("idle", l) /\ RecipesServable("idle", l)
  BY <1>1 DEF SoundAt, Sound, WriteSection
<1>0. UNCHANGED person /\ UNCHANGED branch /\ UNCHANGED product /\ UNCHANGED recipe /\ UNCHANGED stuff
  BY DEF WriteSection
<1>3. PICK c, d : section' = [section EXCEPT ![c] = [phase |-> "live", default |-> d]]
  BY DEF WriteSection
<1>4. /\ DOMAIN section' = Sections
      /\ \A s \in Sections : DOMAIN section'[s] = {"phase", "default"}
      /\ \A s \in Sections : section[s].phase = "live" => section'[s].phase = "live"
  BY <1>3 DEF DocShape
<1>5. DocShape' BY <1>0, <1>4 DEF DocShape, ProductShape
<1>6. OwnersLive' BY <1>0, <1>2 DEF OwnersLive, Live
<1>7. ProductsPlaced("idle", l)' BY <1>0, <1>2, <1>4 DEF ProductsPlaced, Live, DocShape
<1>8. RecipesServable("idle", l)' BY <1>0, <1>2 DEF RecipesServable, Servable, Live
<1>9. HeldSound("idle", l)' BY PlainSound DEF PlainLabels
<1>10. cataloguePc[w] = "idle" /\ UNCHANGED <<cataloguePc, catalogueLoc>> BY DEF WriteSection
<1> QED BY <1>1, <1>5, <1>6, <1>7, <1>8, <1>9, <1>10, SoundStays

LEMMA EnsureSound ==
    ASSUME StaffShape, DocShape, NEW w \in CatalogueStaff, SoundAt(w), EnsureDefault(w)
    PROVE  DocShape' /\ SoundAt(w)'
<1>1. PICK l : l = catalogueLoc[w] OBVIOUS
<1>2. /\ OwnersLive /\ ProductsPlaced("ensureDefault", l) /\ RecipesServable("ensureDefault", l)
      /\ HeldSound("ensureDefault", l)
  BY <1>1 DEF SoundAt, Sound, EnsureDefault
<1>h. HeldInCatalogue(l) /\ DOMAIN l = {"id", "branch", "user", "former", "section", "doc", "todo"}
  BY <1>1, HeldFields DEF StaffShape
<1>0. UNCHANGED person /\ UNCHANGED branch /\ UNCHANGED product /\ UNCHANGED recipe /\ UNCHANGED stuff
  BY DEF EnsureDefault
<1>3. PICK c : /\ c \in Sections /\ (section[c].default \/ section[c].phase = "none")
               /\ section' = [section EXCEPT ![c] = [phase |-> "live", default |-> TRUE]]
               /\ CatalogueGo(w, "reassign", [l EXCEPT !.id = c])
  BY <1>1 DEF EnsureDefault
<1>4. PICK held : held = [l EXCEPT !.id = c] OBVIOUS
<1>5. HeldInCatalogue(held) /\ held.id = c /\ held.section = l.section
  BY <1>4, <1>h DEF HeldInCatalogue
<1>6. c # l.section BY <1>2, <1>3 DEF HeldSound, Live
<1>7. /\ DOMAIN section' = Sections
      /\ \A s \in Sections : DOMAIN section'[s] = {"phase", "default"}
      /\ \A s \in Sections : section[s].phase = "live" => section'[s].phase = "live"
      /\ section'[c].phase = "live"
  BY <1>3 DEF DocShape
<1>8. DocShape' BY <1>0, <1>7 DEF DocShape, ProductShape
<1>9. OwnersLive' BY <1>0, <1>2 DEF OwnersLive, Live
<1>10. ProductsPlaced("reassign", held) /\ RecipesServable("reassign", held)
  BY <1>2, NothingPending DEF Cascading
<1>11. ProductsPlaced("reassign", held)'
  BY <1>0, <1>10, <1>7 DEF ProductsPlaced, Live, DocShape
<1>12. RecipesServable("reassign", held)' BY <1>0, <1>10 DEF RecipesServable, Servable, Live
<1>13. HeldSound("reassign", held)' BY <1>3, <1>5, <1>6, <1>7 DEF HeldSound, Live
<1> QED BY <1>3, <1>4, <1>5, <1>8, <1>9, <1>11, <1>12, <1>13, SoundLands

LEMMA DeleteSectionSound ==
    ASSUME StaffShape, DocShape, NEW w \in CatalogueStaff, SoundAt(w), DeleteSection(w)
    PROVE  DocShape' /\ SoundAt(w)'
<1>1. PICK l : l = catalogueLoc[w] OBVIOUS
<1>2. /\ OwnersLive /\ ProductsPlaced("deleteSection", l) /\ RecipesServable("deleteSection", l)
      /\ HeldSound("deleteSection", l)
  BY <1>1 DEF SoundAt, Sound, DeleteSection
<1>0. UNCHANGED person /\ UNCHANGED branch /\ UNCHANGED product /\ UNCHANGED recipe /\ UNCHANGED stuff
  BY DEF DeleteSection
<1>3. section' = [section EXCEPT ![l.section].phase = "deleted"] BY <1>1 DEF DeleteSection
<1>4. /\ DOMAIN section' = Sections
      /\ \A s \in Sections : DOMAIN section'[s] = {"phase", "default"}
      /\ \A s \in Sections : s # l.section => section'[s] = section[s]
  BY <1>3 DEF DocShape
<1>5. DocShape' BY <1>0, <1>4 DEF DocShape, ProductShape
<1>6. OwnersLive' BY <1>0, <1>2 DEF OwnersLive, Live
<1>7. /\ ProductsPlaced("idle", CatalogueNothing) /\ RecipesServable("idle", CatalogueNothing)
  BY <1>2, NothingPending DEF Cascading
<1>8. ProductsPlaced("idle", CatalogueNothing)'
  BY <1>0, <1>2, <1>7, <1>4 DEF ProductsPlaced, Live, DocShape, ProductShape, HeldSound
<1>9. RecipesServable("idle", CatalogueNothing)'
  BY <1>0, <1>7 DEF RecipesServable, Servable, Live
<1>10. HeldSound("idle", CatalogueNothing)' BY PlainSound DEF PlainLabels
<1>11. CatalogueGo(w, "idle", CatalogueNothing) BY CatalogueRests DEF DeleteSection
<1> QED BY <1>5, <1>6, <1>8, <1>9, <1>10, <1>11, CatalogueFields, SoundLands

-------------------------------------------------------------------------------
(* The writes to products. *)
LEMMA ProductsKept ==
    ASSUME DocShape, ProductShape', UNCHANGED <<person, branch, section, recipe, stuff>>,
           \A p \in ProductIds : /\ product'[p].of = product[p].of
                                 /\ product'[p].phase = product[p].phase
                                 /\ product'[p].via = product[p].via
                                 /\ product'[p].section \in {product[p].section} \cup Live(section),
           OwnersLive, NEW label, NEW l, label \notin Cascading,
           ProductsPlaced(label, l), RecipesServable(label, l), NEW other, NEW m
    PROVE  DocShape' /\ OwnersLive' /\ ProductsPlaced(other, m)' /\ RecipesServable(other, m)'
<1>0. UNCHANGED person /\ UNCHANGED branch /\ UNCHANGED section /\ UNCHANGED recipe /\ UNCHANGED stuff
  OBVIOUS
<1>1. DocShape' BY <1>0 DEF DocShape
<1>2. OwnersLive' BY <1>0 DEF OwnersLive, Live
<1>3. ProductsPlaced(other, m) /\ RecipesServable(other, m) BY NothingPending
<1>4. ProductsPlaced(other, m)' BY <1>0, <1>3 DEF ProductsPlaced, Live, DocShape, ProductShape
<1>5. RecipesServable(other, m)'
  BY <1>0, <1>3 DEF RecipesServable, Servable, Live, DocShape, ProductShape
<1> QED BY <1>1, <1>2, <1>4, <1>5

LEMMA RenameSound ==
    ASSUME StaffShape, DocShape, NEW w \in CatalogueStaff, SoundAt(w), RenameSlug(w) \/ FindSlugs(w)
    PROVE  DocShape' /\ SoundAt(w)'
<1>1. PICK l : l = catalogueLoc[w] OBVIOUS
<1>2. PICK label : label = cataloguePc[w] /\ label \in {"renameSlugs", "renameSlug"}
  BY DEF RenameSlug, FindSlugs
<1>3. /\ OwnersLive /\ ProductsPlaced(label, l) /\ RecipesServable(label, l)
  BY <1>1, <1>2 DEF SoundAt, Sound
<1>h. HeldInCatalogue(l) BY <1>1 DEF StaffShape
<1>f. \A p \in ProductIds : DOMAIN product[p] = {"phase", "of", "title", "slug", "section", "available", "via"}
  BY DocFields
<1>4. UNCHANGED <<person, branch, section, recipe, stuff>> BY DEF RenameSlug, FindSlugs
<1>5. \/ UNCHANGED product
      \/ \E p, s : product' = [product EXCEPT ![p] = [product[p] EXCEPT !.slug = s]]
  BY DEF RenameSlug, FindSlugs
<1>6. /\ ProductShape'
      /\ \A p \in ProductIds : /\ product'[p].of = product[p].of
                               /\ product'[p].phase = product[p].phase
                               /\ product'[p].via = product[p].via
                               /\ product'[p].section = product[p].section
  <2>1. CASE UNCHANGED product BY <2>1 DEF DocShape, ProductShape
  <2>2. ASSUME NEW p, NEW s, product' = [product EXCEPT ![p] = [product[p] EXCEPT !.slug = s]]
        PROVE  <1>6!1 /\ <1>6!2
    BY <2>2, <1>f DEF DocShape, ProductShape
  <2> QED BY <1>5, <2>1, <2>2
<1>7. PICK other, held : other \in PlainLabels /\ HeldInCatalogue(held) /\ CatalogueGo(w, other, held)
  <2>1. \A S : HeldInCatalogue([l EXCEPT !.todo = S]) BY <1>h DEF HeldInCatalogue
  <2>2. \/ CatalogueDone(w) \/ \E S : CatalogueGo(w, "renameSlug", [l EXCEPT !.todo = S])
    <3>1. CASE FindSlugs(w) BY <3>1, <1>1 DEF FindSlugs
    <3>2. CASE RenameSlug(w) BY <3>2, <1>1 DEF RenameSlug
    <3> QED BY <3>1, <3>2
  <2>3. CASE CatalogueDone(w) BY <2>3, CatalogueRests, CatalogueFields DEF PlainLabels
  <2>4. ASSUME NEW S, CatalogueGo(w, "renameSlug", [l EXCEPT !.todo = S])
        PROVE  \E other, held : other \in PlainLabels /\ HeldInCatalogue(held)
                                /\ CatalogueGo(w, other, held)
    BY <2>4, <2>1 DEF PlainLabels
  <2> QED BY <2>2, <2>3, <2>4
<1>8. DocShape' /\ OwnersLive' /\ ProductsPlaced(other, held)' /\ RecipesServable(other, held)'
  BY <1>2, <1>3, <1>4, <1>6, ProductsKept DEF Cascading
<1>9. HeldSound(other, held)' BY <1>7, PlainSound
<1> QED BY <1>7, <1>8, <1>9, SoundLands

LEMMA ReassignSound ==
    ASSUME StaffShape, DocShape, NEW w \in CatalogueStaff, SoundAt(w), ReassignProducts(w)
    PROVE  DocShape' /\ SoundAt(w)'
<1>1. PICK l : l = catalogueLoc[w] OBVIOUS
<1>2. /\ OwnersLive /\ ProductsPlaced("reassign", l) /\ RecipesServable("reassign", l)
      /\ HeldSound("reassign", l) /\ HeldInCatalogue(l)
  BY <1>1 DEF SoundAt, Sound, ReassignProducts, StaffShape
<1>3. l.id \in Live(section) /\ l.id # l.section BY <1>2 DEF HeldSound
<1>f. \A p \in ProductIds : DOMAIN product[p] = {"phase", "of", "title", "slug", "section", "available", "via"}
  BY DocFields
<1>4. UNCHANGED <<person, branch, section, recipe, stuff>> BY DEF ReassignProducts
<1>5. product' = [p \in ProductIds |->
         IF product[p].section = l.section THEN [product[p] EXCEPT !.section = l.id] ELSE product[p]]
  BY <1>1 DEF ReassignProducts
<1>6. /\ ProductShape'
      /\ \A p \in ProductIds : /\ product'[p].of = product[p].of
                               /\ product'[p].phase = product[p].phase
                               /\ product'[p].via = product[p].via
                               /\ product'[p].section =
                                     IF product[p].section = l.section THEN l.id ELSE product[p].section
  BY <1>5, <1>f, CatalogueFields DEF ProductShape
<1>7. DocShape' /\ OwnersLive' /\ ProductsPlaced("deleteSection", l)'
      /\ RecipesServable("deleteSection", l)'
  BY <1>2, <1>3, <1>4, <1>6, ProductsKept DEF Cascading
<1>8. HeldSound("deleteSection", l)' BY <1>3, <1>6 DEF HeldSound
<1>9. CatalogueGo(w, "deleteSection", l) BY <1>1 DEF ReassignProducts
<1> QED BY <1>2, <1>7, <1>8, <1>9, SoundLands

LEMMA AvailabilitySound ==
    ASSUME StaffShape, DocShape, NEW w \in CatalogueStaff, SoundAt(w), ChangeAvailability(w)
    PROVE  DocShape' /\ SoundAt(w)'
<1>1. PICK l : l = catalogueLoc[w] OBVIOUS
<1>2. /\ OwnersLive /\ ProductsPlaced("idle", l) /\ RecipesServable("idle", l)
  BY <1>1 DEF SoundAt, Sound, ChangeAvailability
<1>f. \A p \in ProductIds : DOMAIN product[p] = {"phase", "of", "title", "slug", "section", "available", "via"}
  BY DocFields
<1>3. UNCHANGED <<person, branch, section, recipe, stuff>> BY DEF ChangeAvailability
<1>4. PICK p, a : product' = [product EXCEPT ![p].available = a] BY DEF ChangeAvailability
<1>5. /\ ProductShape'
      /\ \A q \in ProductIds : /\ product'[q].of = product[q].of
                               /\ product'[q].phase = product[q].phase
                               /\ product'[q].via = product[q].via
                               /\ product'[q].section = product[q].section
  BY <1>4, <1>f DEF DocShape, ProductShape
<1>6. DocShape' /\ OwnersLive' /\ ProductsPlaced("idle", l)' /\ RecipesServable("idle", l)'
  BY <1>2, <1>3, <1>5, ProductsKept DEF Cascading
<1>7. HeldSound("idle", l)' BY PlainSound DEF PlainLabels
<1>8. cataloguePc[w] = "idle" /\ UNCHANGED <<cataloguePc, catalogueLoc>> BY DEF ChangeAvailability
<1> QED BY <1>1, <1>6, <1>7, <1>8, SoundStays

LEMMA UpdateSound ==
    ASSUME StaffShape, DocShape, NEW w \in CatalogueStaff, SoundAt(w), UpdateProduct(w)
    PROVE  DocShape' /\ SoundAt(w)'
<1>1. PICK l : l = catalogueLoc[w] OBVIOUS
<1>2. /\ OwnersLive /\ ProductsPlaced("update", l) /\ RecipesServable("update", l)
      /\ HeldSound("update", l)
  BY <1>1 DEF SoundAt, Sound, UpdateProduct
<1>3. l.section \in Live(section) \cup {Nobody} /\ l.branch \in Live(branch) \cup {Nobody}
  BY <1>2 DEF HeldSound
<1>f. \A p \in ProductIds : DOMAIN product[p] = {"phase", "of", "title", "slug", "section", "available", "via"}
  BY DocFields
<1>0. UNCHANGED person /\ UNCHANGED branch /\ UNCHANGED section /\ UNCHANGED recipe /\ UNCHANGED stuff
  BY DEF UpdateProduct
<1>4. \/ UNCHANGED product
      \/ \E t, s : product' = [product EXCEPT ![l.id] =
            [product[l.id] EXCEPT !.title = t, !.slug = s, !.section = Given(l.section, @),
                                  !.of = Given(l.branch, @),
                                  !.via = IF l.branch \in {product[l.id].of, Nobody} THEN @ ELSE "move"]]
  BY <1>1, Zenon DEF UpdateProduct
<1>5. /\ ProductShape'
      /\ \A p \in ProductIds : /\ product'[p].phase = product[p].phase
                               /\ product'[p].section \in {product[p].section} \cup Live(section)
                               /\ \/ product'[p].of = product[p].of /\ product'[p].via = product[p].via
                                  \/ product'[p].of \in Live(branch) /\ product'[p].via = "move"
  <2>1. CASE UNCHANGED product BY <2>1 DEF DocShape, ProductShape
  <2>2. ASSUME NEW t, NEW s, product' = [product EXCEPT ![l.id] =
                  [product[l.id] EXCEPT !.title = t, !.slug = s, !.section = Given(l.section, @),
                                  !.of = Given(l.branch, @),
                                  !.via = IF l.branch \in {product[l.id].of, Nobody} THEN @ ELSE "move"]]
        PROVE  <1>5!1 /\ <1>5!2
    <3>1. ProductShape' BY <2>2 DEF DocShape, ProductShape
    <3>2. \A p \in ProductIds : p # l.id => product'[p] = product[p]
      BY <2>2 DEF DocShape, ProductShape
    <3>3. l.id \in ProductIds =>
             /\ product'[l.id].phase = product[l.id].phase
             /\ product'[l.id].section = Given(l.section, product[l.id].section)
             /\ product'[l.id].of = Given(l.branch, product[l.id].of)
             /\ product'[l.id].via =
                   IF l.branch \in {product[l.id].of, Nobody} THEN product[l.id].via ELSE "move"
      BY <2>2, <1>f DEF DocShape, ProductShape
    <3> QED BY <3>1, <3>2, <3>3, <1>3 DEF Given
  <2> QED BY <1>4, <2>1, <2>2
<1>6. DocShape' BY <1>0, <1>5 DEF DocShape
<1>7. OwnersLive' BY <1>0, <1>2 DEF OwnersLive, Live
<1>8. ProductsPlaced("idle", CatalogueNothing) /\ RecipesServable("idle", CatalogueNothing)
  BY <1>2, NothingPending DEF Cascading
<1>9. ProductsPlaced("idle", CatalogueNothing)'
  BY <1>0, <1>5, <1>8 DEF ProductsPlaced, Live, DocShape, ProductShape
<1>10. RecipesServable("idle", CatalogueNothing)'
  BY <1>0, <1>5, <1>8 DEF RecipesServable, Servable, Live, DocShape, ProductShape
<1>11. HeldSound("idle", CatalogueNothing)' BY PlainSound DEF PlainLabels
<1>12. CatalogueGo(w, "idle", CatalogueNothing) BY CatalogueRests DEF UpdateProduct
<1> QED BY <1>6, <1>7, <1>9, <1>10, <1>11, <1>12, CatalogueFields, SoundLands

(* The category a menu file misses, and the product it brings. *)
LEMMA ImportSectionSound ==
    ASSUME StaffShape, DocShape, NEW w \in CatalogueStaff, SoundAt(w), ImportSection(w)
    PROVE  DocShape' /\ SoundAt(w)'
<1>1. PICK l : l = catalogueLoc[w] OBVIOUS
<1>2. /\ OwnersLive /\ ProductsPlaced("importSection", l) /\ RecipesServable("importSection", l)
      /\ HeldSound("importSection", l)
  BY <1>1 DEF SoundAt, Sound, ImportSection
<1>h. HeldInCatalogue(l) /\ DOMAIN l = {"id", "branch", "user", "former", "section", "doc", "todo"}
  BY <1>1, HeldFields DEF StaffShape
<1>3. CASE CatalogueDone(w) /\ UNCHANGED section
  <2>1. cataloguePc[w] \notin Cascading /\ UNCHANGED Documents
    BY <1>3 DEF ImportSection, Cascading, Documents
  <2> QED BY <1>3, <2>1, RestSound
<1>4. ASSUME NEW c \in Sections, NEW d,
             section' = [section EXCEPT ![c] = [phase |-> "live", default |-> d]],
             CatalogueGo(w, "importProduct", [l EXCEPT !.section = c])
      PROVE  DocShape' /\ SoundAt(w)'
  <2>0. UNCHANGED person /\ UNCHANGED branch /\ UNCHANGED product /\ UNCHANGED recipe /\ UNCHANGED stuff
    BY DEF ImportSection
  <2>1. PICK held : held = [l EXCEPT !.section = c] OBVIOUS
  <2>2. HeldInCatalogue(held) /\ held.section = c /\ held.doc = l.doc
    BY <2>1, <1>h DEF HeldInCatalogue
  <2>3. /\ DOMAIN section' = Sections
        /\ \A s \in Sections : DOMAIN section'[s] = {"phase", "default"}
        /\ \A s \in Sections : section[s].phase = "live" => section'[s].phase = "live"
        /\ section'[c].phase = "live"
    BY <1>4 DEF DocShape
  <2>4. DocShape' BY <2>0, <2>3 DEF DocShape, ProductShape
  <2>5. OwnersLive' BY <2>0, <1>2 DEF OwnersLive, Live
  <2>6. ProductsPlaced("importProduct", held) /\ RecipesServable("importProduct", held)
    BY <1>2, NothingPending DEF Cascading
  <2>7. ProductsPlaced("importProduct", held)'
    BY <2>0, <2>6, <2>3 DEF ProductsPlaced, Live, DocShape
  <2>8. RecipesServable("importProduct", held)' BY <2>0, <2>6 DEF RecipesServable, Servable, Live
  <2>9. HeldSound("importProduct", held)'
    <3>1. l.doc = NoProduct \/ l.doc.via = "file" BY <1>2 DEF HeldSound
    <3> QED BY <3>1, <2>2, <2>3 DEF HeldSound, Live
  <2> QED BY <1>4, <2>1, <2>2, <2>4, <2>5, <2>7, <2>8, <2>9, SoundLands
<1> QED BY <1>1, <1>3, <1>4 DEF ImportSection

LEMMA ImportProductSound ==
    ASSUME StaffShape, DocShape, NEW w \in CatalogueStaff, SoundAt(w), ImportProduct(w)
    PROVE  DocShape' /\ SoundAt(w)'
<1>1. PICK l : l = catalogueLoc[w] OBVIOUS
<1>2. /\ OwnersLive /\ ProductsPlaced("importProduct", l) /\ RecipesServable("importProduct", l)
      /\ HeldSound("importProduct", l) /\ HeldInCatalogue(l)
  BY <1>1 DEF SoundAt, Sound, ImportProduct, StaffShape
<1>3. l.section \in Live(section) /\ (l.doc = NoProduct \/ l.doc.via = "file")
  BY <1>2 DEF HeldSound
<1>f. \A p \in ProductIds : DOMAIN product[p] = {"phase", "of", "title", "slug", "section", "available", "via"}
  BY DocFields
<1>0. UNCHANGED person /\ UNCHANGED branch /\ UNCHANGED section /\ UNCHANGED recipe /\ UNCHANGED stuff
  BY DEF ImportProduct
<1>c. HeldSound("idle", CatalogueNothing)' BY PlainSound DEF PlainLabels
<1>g. CatalogueGo(w, "idle", CatalogueNothing) BY CatalogueRests DEF ImportProduct
<1>4. CASE UNCHANGED product \/ product' = [product EXCEPT ![l.id].section = l.section]
  <2>1. /\ ProductShape'
        /\ \A p \in ProductIds : /\ product'[p].of = product[p].of
                                 /\ product'[p].phase = product[p].phase
                                 /\ product'[p].via = product[p].via
                                 /\ product'[p].section \in {product[p].section} \cup Live(section)
    BY <1>3, <1>4, <1>f DEF DocShape, ProductShape
  <2>2. DocShape' /\ OwnersLive' /\ ProductsPlaced("idle", CatalogueNothing)'
        /\ RecipesServable("idle", CatalogueNothing)'
    BY <1>0, <1>2, <2>1, ProductsKept DEF Cascading
  <2> QED BY <2>2, <1>c, <1>g, CatalogueFields, SoundLands
<1>5. CASE /\ l.doc # NoProduct /\ product[l.id] = NoProduct
           /\ product' = [product EXCEPT ![l.id] = [l.doc EXCEPT !.section = l.section]]
  <2>1. PICK new : new = [l.doc EXCEPT !.section = l.section] OBVIOUS
  <2>2. DOMAIN new = DOMAIN NoProduct /\ new.via = "file" /\ new.section = l.section
    BY <1>2, <1>3, <1>5, <2>1, CatalogueFields DEF HeldInCatalogue
  <2>3. product' = [product EXCEPT ![l.id] = new] BY <1>5, <2>1
  <2>4. ProductShape' BY <2>2, <2>3 DEF DocShape, ProductShape
  <2>5. \A p \in ProductIds : \/ product'[p] = product[p]
                              \/ /\ p = l.id /\ product[p].phase = "none" /\ product[p].via = "none"
                                 /\ product'[p] = new
    BY <1>5, <2>3, CatalogueFields DEF DocShape, ProductShape, NoProduct
  <2>6. DocShape' BY <1>0, <2>4 DEF DocShape
  <2>7. OwnersLive' BY <1>0, <1>2 DEF OwnersLive, Live
  <2>8. /\ ProductsPlaced("idle", CatalogueNothing) /\ RecipesServable("idle", CatalogueNothing)
    BY <1>2, NothingPending DEF Cascading
  <2>9. ProductsPlaced("idle", CatalogueNothing)'
    BY <1>0, <1>3, <2>2, <2>5, <2>8, <2>4 DEF ProductsPlaced, Live, DocShape, ProductShape
  <2>10. RecipesServable("idle", CatalogueNothing)'
    BY <1>0, <2>5, <2>8, <2>4 DEF RecipesServable, Servable, Live, DocShape, ProductShape
  <2> QED BY <2>6, <2>7, <2>9, <2>10, <1>c, <1>g, CatalogueFields, SoundLands
<1> QED BY <1>1, <1>4, <1>5 DEF ImportProduct

LEMMA InsertSound ==
    ASSUME StaffShape, DocShape, NEW w \in CatalogueStaff, SoundAt(w), InsertProduct(w)
    PROVE  DocShape' /\ SoundAt(w)'
<1>1. PICK l : l = catalogueLoc[w] OBVIOUS
<1>2. /\ OwnersLive /\ ProductsPlaced("insert", l) /\ RecipesServable("insert", l)
      /\ HeldSound("insert", l) /\ HeldInCatalogue(l)
  BY <1>1 DEF SoundAt, Sound, InsertProduct, StaffShape
<1>3. l.doc.of \in Live(branch) /\ l.doc.section \in Live(section) BY <1>2 DEF HeldSound
<1>0. UNCHANGED person /\ UNCHANGED branch /\ UNCHANGED section /\ UNCHANGED recipe /\ UNCHANGED stuff
  BY DEF InsertProduct
<1>4. \/ UNCHANGED product
      \/ product[l.id] = NoProduct /\ product' = [product EXCEPT ![l.id] = l.doc]
  BY <1>1 DEF InsertProduct
<1>5. ProductShape' BY <1>2, <1>4 DEF DocShape, ProductShape, HeldInCatalogue
<1>6. \A p \in ProductIds : \/ product'[p] = product[p]
                            \/ /\ p = l.id /\ product[p].phase = "none" /\ product[p].via = "none"
                               /\ product'[p] = l.doc
  BY <1>4 DEF DocShape, ProductShape, NoProduct
<1>7. DocShape' BY <1>0, <1>5 DEF DocShape
<1>8. OwnersLive' BY <1>0, <1>2 DEF OwnersLive, Live
<1>9. /\ ProductsPlaced("idle", CatalogueNothing) /\ RecipesServable("idle", CatalogueNothing)
  BY <1>2, NothingPending DEF Cascading
<1>10. ProductsPlaced("idle", CatalogueNothing)'
  BY <1>0, <1>3, <1>6, <1>9, <1>5 DEF ProductsPlaced, Live, DocShape, ProductShape
<1>11. RecipesServable("idle", CatalogueNothing)'
  BY <1>0, <1>6, <1>9, <1>5 DEF RecipesServable, Servable, Live, DocShape, ProductShape
<1>12. HeldSound("idle", CatalogueNothing)' BY PlainSound DEF PlainLabels
<1>13. CatalogueGo(w, "idle", CatalogueNothing) BY CatalogueRests DEF InsertProduct
<1> QED BY <1>7, <1>8, <1>10, <1>11, <1>12, <1>13, CatalogueFields, SoundLands

LEMMA DeleteProductSound ==
    ASSUME StaffShape, DocShape, NEW w \in CatalogueStaff, SoundAt(w), DeleteProduct(w)
    PROVE  DocShape' /\ SoundAt(w)'
<1>1. PICK l : l = catalogueLoc[w] OBVIOUS
<1>2. /\ OwnersLive /\ ProductsPlaced("idle", l) /\ RecipesServable("idle", l)
  BY <1>1 DEF SoundAt, Sound, DeleteProduct
<1>0. UNCHANGED person /\ UNCHANGED branch /\ UNCHANGED section /\ UNCHANGED recipe /\ UNCHANGED stuff
  BY DEF DeleteProduct
<1>f. \A p \in ProductIds : DOMAIN product[p] = {"phase", "of", "title", "slug", "section", "available", "via"}
  BY DocFields
<1>3. PICK p : /\ product' = [product EXCEPT ![p].phase = "deleted"]
               /\ CatalogueGo(w, "deleteRecipe", [CatalogueNothing EXCEPT !.id = p])
  BY DEF DeleteProduct
<1>4. PICK held : held = [CatalogueNothing EXCEPT !.id = p] OBVIOUS
<1>5. HeldInCatalogue(held) /\ held.id = p BY <1>4, CatalogueFields DEF HeldInCatalogue
<1>6. ProductShape' /\ \A q \in ProductIds : q # p => product'[q] = product[q]
  BY <1>3, <1>f DEF DocShape, ProductShape
<1>p. p \in ProductIds => product'[p].phase = "deleted" BY <1>3, <1>f DEF DocShape, ProductShape
<1>7. DocShape' BY <1>0, <1>6 DEF DocShape
<1>8. OwnersLive' BY <1>0, <1>2 DEF OwnersLive, Live
<1>9. ProductsPlaced("deleteRecipe", held) /\ RecipesServable("idle", held)
  BY <1>2, NothingPending DEF Cascading
<1>10. ProductsPlaced("deleteRecipe", held)'
  BY <1>0, <1>6, <1>p, <1>9 DEF ProductsPlaced, Live, DocShape, ProductShape
<1>11. RecipesServable("deleteRecipe", held)'
  BY <1>0, <1>5, <1>6, <1>9 DEF RecipesServable, Servable, Live, DocShape, ProductShape
<1>12. HeldSound("deleteRecipe", held)' BY DEF HeldSound
<1> QED BY <1>3, <1>4, <1>5, <1>7, <1>8, <1>10, <1>11, <1>12, SoundLands

LEMMA DropProductsSound ==
    ASSUME StaffShape, DocShape, NEW w \in CatalogueStaff, SoundAt(w), DropProducts(w)
    PROVE  DocShape' /\ SoundAt(w)'
<1>1. PICK l : l = catalogueLoc[w] OBVIOUS
<1>2. /\ OwnersLive /\ ProductsPlaced("dropProducts", l) /\ RecipesServable("dropProducts", l)
      /\ HeldInCatalogue(l)
  BY <1>1 DEF SoundAt, Sound, DropProducts, StaffShape
<1>0. UNCHANGED person /\ UNCHANGED branch /\ UNCHANGED section /\ UNCHANGED recipe /\ UNCHANGED stuff
  BY DEF DropProducts
<1>f. \A p \in ProductIds : DOMAIN product[p] = {"phase", "of", "title", "slug", "section", "available", "via"}
  BY DocFields
<1>3. product' = [p \in ProductIds |->
          IF p \in ProductsOf(l.branch) THEN [product[p] EXCEPT !.phase = "deleted"] ELSE product[p]]
  BY <1>1 DEF DropProducts
<1>4. /\ ProductShape'
      /\ \A p \in ProductIds : product'[p].of = product[p].of /\ product'[p].via = product[p].via
      /\ \A p \in ProductIds : product[p].of # l.branch => product'[p] = product[p]
      /\ \A p \in ProductIds : product[p].of = l.branch => product'[p].phase # "live"
  BY <1>3, <1>f, CatalogueFields DEF DocShape, ProductShape, ProductsOf, Live
<1>5. DocShape' BY <1>0, <1>4 DEF DocShape
<1>6. OwnersLive' BY <1>0, <1>2 DEF OwnersLive, Live
<1>7. ProductsPlaced("dropStuffs", l)'
  BY <1>0, <1>2, <1>4 DEF ProductsPlaced, Live, DocShape, ProductShape
<1>8. RecipesServable("dropStuffs", l)'
  BY <1>0, <1>2, <1>4 DEF RecipesServable, Servable, Live, DocShape, ProductShape
<1>9. HeldSound("dropStuffs", l)' BY DEF HeldSound
<1>10. CatalogueGo(w, "dropStuffs", l) BY <1>1 DEF DropProducts
<1> QED BY <1>2, <1>5, <1>6, <1>7, <1>8, <1>9, <1>10, SoundLands

-------------------------------------------------------------------------------
(* The writes to ingredients and recipes. *)
LEMMA DropStuffsSound ==
    ASSUME StaffShape, DocShape, NEW w \in CatalogueStaff, SoundAt(w), DropStuffs(w)
    PROVE  DocShape' /\ SoundAt(w)'
<1>1. PICK l : l = catalogueLoc[w] OBVIOUS
<1>2. /\ OwnersLive /\ ProductsPlaced("dropStuffs", l) /\ RecipesServable("dropStuffs", l)
      /\ HeldInCatalogue(l)
  BY <1>1 DEF SoundAt, Sound, DropStuffs, StaffShape
<1>0. UNCHANGED person /\ UNCHANGED branch /\ UNCHANGED section /\ UNCHANGED product /\ UNCHANGED recipe
  BY DEF DropStuffs
<1>3. stuff' = [i \in Stuffs |->
          IF stuff[i].of = l.branch THEN [stuff[i] EXCEPT !.phase = "deleted"] ELSE stuff[i]]
  BY <1>1 DEF DropStuffs
<1>4. /\ DOMAIN stuff' = Stuffs /\ \A i \in Stuffs : DOMAIN stuff'[i] = {"phase", "of"}
      /\ \A i \in Stuffs : stuff[i].of # l.branch => stuff'[i] = stuff[i]
  BY <1>3 DEF DocShape
<1>5. DocShape' BY <1>0, <1>4 DEF DocShape, ProductShape
<1>6. OwnersLive' BY <1>0, <1>2 DEF OwnersLive, Live
<1>7. ProductsPlaced("dropRecipes", l)' BY <1>0, <1>2 DEF ProductsPlaced, Live
<1>8. RecipesServable("dropRecipes", l)'
  BY <1>0, <1>2, <1>4 DEF RecipesServable, Servable, Live, DocShape
<1>9. HeldSound("dropRecipes", l)' BY DEF HeldSound
<1>10. CatalogueGo(w, "dropRecipes", l) BY <1>1 DEF DropStuffs
<1> QED BY <1>2, <1>5, <1>6, <1>7, <1>8, <1>9, <1>10, SoundLands

LEMMA DropRecipesSound ==
    ASSUME StaffShape, DocShape, NEW w \in CatalogueStaff, SoundAt(w), DropRecipes(w)
    PROVE  DocShape' /\ SoundAt(w)'
<1>1. PICK l : l = catalogueLoc[w] OBVIOUS
<1>2. /\ OwnersLive /\ ProductsPlaced("dropRecipes", l) /\ RecipesServable("dropRecipes", l)
      /\ HeldInCatalogue(l)
  BY <1>1 DEF SoundAt, Sound, DropRecipes, StaffShape
<1>0. UNCHANGED person /\ UNCHANGED branch /\ UNCHANGED section /\ UNCHANGED product /\ UNCHANGED stuff
  BY DEF DropRecipes
<1>3. recipe' = [p \in ProductIds |-> IF recipe[p].of = l.branch THEN NoRecipe ELSE recipe[p]]
  BY <1>1 DEF DropRecipes
<1>5. DocShape' BY <1>0, <1>3 DEF DocShape, ProductShape, NoRecipe
<1>6. OwnersLive' BY <1>0, <1>2 DEF OwnersLive, Live
<1>7. ProductsPlaced("freeOwner", l)' BY <1>0, <1>2 DEF ProductsPlaced, Live
<1>8. RecipesServable("freeOwner", l)'
  BY <1>0, <1>2, <1>3 DEF RecipesServable, Servable, Live
<1>9. HeldSound("freeOwner", l)' BY DEF HeldSound
<1>10. CatalogueGo(w, "freeOwner", l) BY <1>1 DEF DropRecipes
<1> QED BY <1>2, <1>5, <1>6, <1>7, <1>8, <1>9, <1>10, SoundLands

LEMMA RecipeSound ==
    ASSUME StaffShape, DocShape, NEW w \in CatalogueStaff, SoundAt(w),
           WriteRecipe(w) \/ DeleteRecipe(w)
    PROVE  DocShape' /\ SoundAt(w)'
<1>1. PICK l : l = catalogueLoc[w] OBVIOUS
<1>2. PICK label : label = cataloguePc[w] /\ label \in {"writeRecipe", "deleteRecipe"}
  BY DEF WriteRecipe, DeleteRecipe
<1>3. /\ OwnersLive /\ ProductsPlaced(label, l) /\ RecipesServable(label, l)
      /\ HeldSound(label, l)
  BY <1>1, <1>2 DEF SoundAt, Sound
<1>0. UNCHANGED person /\ UNCHANGED branch /\ UNCHANGED section /\ UNCHANGED product /\ UNCHANGED stuff
  BY DEF WriteRecipe, DeleteRecipe
<1>r. PICK rec : rec = [of |-> Given(recipe[l.id].of, l.branch), uses |-> l.todo] OBVIOUS
<1>4. \/ label = "writeRecipe" /\ UNCHANGED recipe
      \/ label = "writeRecipe" /\ recipe' = [recipe EXCEPT ![l.id] = rec]
      \/ label = "deleteRecipe" /\ recipe' = [recipe EXCEPT ![l.id] = NoRecipe]
  BY <1>1, <1>2, <1>r DEF WriteRecipe, DeleteRecipe
<1>5. DocShape'
  <2>1. DOMAIN recipe' = ProductIds /\ \A p \in ProductIds : DOMAIN recipe'[p] = {"of", "uses"}
    BY <1>4, <1>r DEF DocShape, NoRecipe
  <2> QED BY <1>0, <2>1 DEF DocShape, ProductShape
<1>6. OwnersLive' BY <1>0, <1>3 DEF OwnersLive, Live
<1>7. ProductsPlaced("idle", CatalogueNothing)' BY <1>0, <1>2, <1>3 DEF ProductsPlaced, Live
<1>8. RecipesServable("idle", CatalogueNothing)'
  <2>1. CASE label = "writeRecipe"
    <3>1. /\ l.id \in Live(product) /\ l.branch = product[l.id].of
          /\ \A i \in l.todo : i \in Live(stuff) /\ stuff[i].of = product[l.id].of
      BY <2>1, <1>3 DEF HeldSound
    <3>2. l.id \in ProductIds BY <3>1 DEF Live, DocShape, ProductShape
    <3>3. product[l.id].via # "move" => rec.of = product[l.id].of
      <4>1. CASE recipe[l.id] = NoRecipe BY <4>1, <1>r, <3>1 DEF NoRecipe, Given
      <4>2. CASE recipe[l.id] # NoRecipe /\ product[l.id].via # "move"
        <5>1. recipe[l.id].of = product[l.id].of
          BY <4>2, <2>1, <3>2, <1>3 DEF RecipesServable, Servable
        <5> QED BY <5>1, <1>r, <3>1 DEF Given
      <4> QED BY <4>1, <4>2
    <3>4. \A p \in ProductIds : \/ recipe'[p] = recipe[p]
                                \/ p = l.id /\ recipe'[p].of = rec.of /\ recipe'[p].uses = l.todo
      BY <2>1, <1>4, <1>r DEF DocShape
    <3> QED BY <2>1, <1>0, <1>3, <3>1, <3>3, <3>4 DEF RecipesServable, Servable, Live
  <2>2. CASE label = "deleteRecipe"
    BY <2>2, <1>0, <1>3, <1>4 DEF RecipesServable, Servable, Live, DocShape
  <2> QED BY <1>2, <2>1, <2>2
<1>9. HeldSound("idle", CatalogueNothing)' BY PlainSound DEF PlainLabels
<1>10. CatalogueGo(w, "idle", CatalogueNothing) BY CatalogueRests DEF WriteRecipe, DeleteRecipe
<1> QED BY <1>5, <1>6, <1>7, <1>8, <1>9, <1>10, CatalogueFields, SoundLands

LEMMA CreateStuffSound ==
    ASSUME StaffShape, DocShape, NEW w \in CatalogueStaff, SoundAt(w), CreateStuff(w)
    PROVE  DocShape' /\ SoundAt(w)'
<1>1. PICK l : l = catalogueLoc[w] OBVIOUS
<1>2. /\ OwnersLive /\ ProductsPlaced("idle", l) /\ RecipesServable("idle", l)
  BY <1>1 DEF SoundAt, Sound, CreateStuff
<1>0. UNCHANGED person /\ UNCHANGED branch /\ UNCHANGED section /\ UNCHANGED product /\ UNCHANGED recipe
  BY DEF CreateStuff
<1>3. PICK i, r : /\ i \in Stuffs /\ stuff[i].phase = "none"
                  /\ stuff' = [stuff EXCEPT ![i] = [phase |-> "live", of |-> r]]
  BY DEF CreateStuff
<1>4. /\ DOMAIN stuff' = Stuffs /\ \A j \in Stuffs : DOMAIN stuff'[j] = {"phase", "of"}
      /\ \A j \in Stuffs : stuff[j].phase = "live" => stuff'[j] = stuff[j]
  BY <1>3 DEF DocShape
<1>5. DocShape' BY <1>0, <1>4 DEF DocShape, ProductShape
<1>6. OwnersLive' BY <1>0, <1>2 DEF OwnersLive, Live
<1>7. ProductsPlaced("idle", l)' BY <1>0, <1>2 DEF ProductsPlaced, Live
<1>8. RecipesServable("idle", l)'
  BY <1>0, <1>2, <1>4 DEF RecipesServable, Servable, Live, DocShape
<1>9. HeldSound("idle", l)' BY PlainSound DEF PlainLabels
<1>10. cataloguePc[w] = "idle" /\ UNCHANGED <<cataloguePc, catalogueLoc>> BY DEF CreateStuff
<1> QED BY <1>1, <1>5, <1>6, <1>7, <1>8, <1>9, <1>10, SoundStays

LEMMA DeleteStuffSound ==
    ASSUME StaffShape, DocShape, NEW w \in CatalogueStaff, SoundAt(w), DeleteStuff(w)
    PROVE  DocShape' /\ SoundAt(w)'
<1>1. PICK l : l = catalogueLoc[w] OBVIOUS
<1>2. /\ OwnersLive /\ ProductsPlaced("deleteStuff", l) /\ RecipesServable("deleteStuff", l)
      /\ HeldSound("deleteStuff", l)
  BY <1>1 DEF SoundAt, Sound, DeleteStuff
<1>0. UNCHANGED person /\ UNCHANGED branch /\ UNCHANGED section /\ UNCHANGED product /\ UNCHANGED recipe
  BY DEF DeleteStuff
<1>3. stuff' = [stuff EXCEPT ![l.id].phase = "deleted"] BY <1>1 DEF DeleteStuff
<1>4. /\ DOMAIN stuff' = Stuffs /\ \A j \in Stuffs : DOMAIN stuff'[j] = {"phase", "of"}
      /\ \A j \in Stuffs : j # l.id => stuff'[j] = stuff[j]
  BY <1>3 DEF DocShape
<1>5. DocShape' BY <1>0, <1>4 DEF DocShape, ProductShape
<1>6. OwnersLive' BY <1>0, <1>2 DEF OwnersLive, Live
<1>7. ProductsPlaced("idle", CatalogueNothing)' BY <1>0, <1>2 DEF ProductsPlaced, Live
<1>8. RecipesServable("idle", CatalogueNothing)'
  BY <1>0, <1>2, <1>4 DEF RecipesServable, Servable, Live, DocShape, HeldSound
<1>9. HeldSound("idle", CatalogueNothing)' BY PlainSound DEF PlainLabels
<1>10. CatalogueGo(w, "idle", CatalogueNothing) BY CatalogueRests DEF DeleteStuff
<1> QED BY <1>5, <1>6, <1>7, <1>8, <1>9, <1>10, CatalogueFields, SoundLands

-------------------------------------------------------------------------------
(* A handler that works alone finds and leaves the references sound. *)
SerialInv == /\ StaffShape /\ DocShape
             /\ AtRest => Sound("idle", CatalogueNothing)
             /\ \A w \in CatalogueStaff : OneAtATime(w) => SoundAt(w)

LEMMA StepSound ==
    ASSUME StaffShape, DocShape, NEW w \in CatalogueStaff, SoundAt(w), ChiefStep(w) \/ ClerkStep(w)
    PROVE  DocShape' /\ SoundAt(w)'
<1>1. CASE ChiefStep(w)
  BY <1>1, ChiefReads, PeopleSound, MoveSound, LeaverSound, OpenSound, CloseSound, WriteSectionSound,
     EnsureSound, DeleteSectionSound, RenameSound, ReassignSound, DropProductsSound, DropStuffsSound,
     DropRecipesSound
     DEF ChiefStep
<1>2. CASE ClerkStep(w)
  BY <1>2, ClerkReads, InsertSound, UpdateSound, AvailabilitySound, DeleteProductSound, RecipeSound,
     ImportSectionSound, ImportProductSound, CreateStuffSound, DeleteStuffSound
     DEF ClerkStep
<1> QED BY <1>1, <1>2

LEMMA StepLeavesOthers ==
    ASSUME StaffShape, DocShape, NEW w \in CatalogueStaff, SoundAt(w), ChiefStep(w) \/ ClerkStep(w)
    PROVE  StaffShape' /\ \A v \in CatalogueStaff : v # w => cataloguePc'[v] = cataloguePc[v]
<1>1. CASE Walks(w)
  <2>1. CASE UNCHANGED <<cataloguePc, catalogueLoc>> BY <2>1 DEF StaffShape, HeldInCatalogue
  <2>2. ASSUME NEW label, NEW held, HeldInCatalogue(held), CatalogueGo(w, label, held)
        PROVE  StaffShape' /\ \A v \in CatalogueStaff : v # w => cataloguePc'[v] = cataloguePc[v]
    BY <2>2, CatalogueWalk
  <2> QED BY <1>1, <2>1, <2>2 DEF Walks
<1>2. CASE ReadForProduct(w)
  <2>1. PICK p, t, c, r, via :
           CatalogueGo(w, "insert", [CatalogueNothing EXCEPT !.id = p, !.doc = Described(r, t, c, via)])
    BY <1>2 DEF ReadForProduct
  <2>2. PICK doc : doc = Described(r, t, c, via) OBVIOUS
  <2>3. DOMAIN doc = DOMAIN NoProduct BY <2>2, DescribedFields
  <2>4. PICK held : held = [CatalogueNothing EXCEPT !.id = p, !.doc = doc] OBVIOUS
  <2>5. HeldInCatalogue(held) BY <2>3, <2>4, DocHeld
  <2> QED BY <2>1, <2>2, <2>4, <2>5, CatalogueWalk
<1>3. cataloguePc[w] \in Importing => catalogueLoc[w].doc.via # "form"
  BY CatalogueFields DEF SoundAt, Sound, HeldSound, NoProduct, Importing
<1> QED BY <1>1, <1>2, <1>3, ChiefWalks, ClerkWalks DEF DocShape

LEMMA SerialStart ==
    ASSUME InitCatalogue PROVE SerialInv
<1>1. StaffShape BY CatalogueFields DEF InitCatalogue, StaffShape
<1>2. DocShape
  BY DEF InitCatalogue, DocShape, ProductShape, NoBranch, NoSection, NoRecipe
<1>3. OwnersLive BY DEF InitCatalogue, OwnersLive, Live, NoBranch
<1>4. ASSUME NEW l PROVE Sound("idle", l)
  <2>1. ProductsPlaced("idle", l) BY CatalogueFields DEF InitCatalogue, ProductsPlaced, Live
  <2>2. RecipesServable("idle", l) BY DEF InitCatalogue, RecipesServable
  <2> QED BY <1>3, <2>1, <2>2, PlainSound DEF Sound, PlainLabels
<1>5. \A w \in CatalogueStaff : SoundAt(w) BY <1>4 DEF InitCatalogue, SoundAt
<1> QED BY <1>1, <1>2, <1>4, <1>5 DEF SerialInv

LEMMA IdleSound ==
    ASSUME NEW w \in CatalogueStaff, cataloguePc[w] = "idle", SoundAt(w), NEW l
    PROVE  Sound("idle", l)
<1>1. PICK m : m = catalogueLoc[w] OBVIOUS
<1>2. Sound("idle", m) BY <1>1 DEF SoundAt
<1> QED BY <1>2, NothingPending, PlainSound DEF Sound, Cascading, PlainLabels

LEMMA IdleSoundLater ==
    ASSUME NEW w \in CatalogueStaff, cataloguePc'[w] = "idle", SoundAt(w)', NEW l
    PROVE  Sound("idle", l)'
<1>1. OwnersLive' BY DEF SoundAt, Sound
<1>2. ProductsPlaced("idle", l)' BY DEF SoundAt, Sound, ProductsPlaced
<1>3. RecipesServable("idle", l)' BY DEF SoundAt, Sound, RecipesServable
<1>4. HeldSound("idle", l)' BY PlainSound DEF PlainLabels
<1> QED BY <1>1, <1>2, <1>3, <1>4 DEF Sound

LEMMA SerialStep ==
    ASSUME SerialInv, NEW w \in CatalogueStaff, OneAtATime(w), ChiefStep(w) \/ ClerkStep(w)
    PROVE  SerialInv'
<1>1. StaffShape /\ DocShape /\ SoundAt(w) BY DEF SerialInv
<1>2. DocShape' /\ SoundAt(w)' BY <1>1, StepSound
<1>3. StaffShape' /\ \A v \in CatalogueStaff : v # w => cataloguePc'[v] = cataloguePc[v]
  BY <1>1, StepLeavesOthers
<1>4. ASSUME AtRest' PROVE Sound("idle", CatalogueNothing)'
  <2>1. cataloguePc'[w] = "idle" BY <1>4 DEF AtRest
  <2> QED BY <2>1, <1>2, IdleSoundLater
<1>5. ASSUME NEW v \in CatalogueStaff, OneAtATime(v)' PROVE SoundAt(v)'
  <2>1. CASE v = w BY <2>1, <1>2
  <2>2. CASE v # w
    <3>1. cataloguePc'[w] = "idle" BY <2>2, <1>5 DEF OneAtATime
    <3>2. cataloguePc'[v] = "idle" BY <2>2, <1>3 DEF OneAtATime
    <3>3. PICK l : l = catalogueLoc'[v] OBVIOUS
    <3>4. Sound("idle", l)' BY <3>1, <1>2, IdleSoundLater
    <3>5. OwnersLive' BY <3>4 DEF Sound
    <3>6. ProductsPlaced(cataloguePc[v], catalogueLoc[v])'
      BY <3>2, <3>3, <3>4 DEF Sound, ProductsPlaced
    <3>7. RecipesServable(cataloguePc[v], catalogueLoc[v])'
      BY <3>2, <3>3, <3>4 DEF Sound, RecipesServable
    <3>8. HeldSound(cataloguePc[v], catalogueLoc[v])' BY <3>2 DEF HeldSound
    <3> QED BY <3>5, <3>6, <3>7, <3>8 DEF SoundAt, Sound
  <2> QED BY <2>1, <2>2
<1> QED BY <1>2, <1>3, <1>4, <1>5 DEF SerialInv

LEMMA SerialKept ==
    ASSUME SerialInv, Settled, UNCHANGED cataloguePc, UNCHANGED catalogueLoc
    PROVE  SerialInv'
<1>s. StaffShape /\ DocShape BY DEF SerialInv
<1>1. StaffShape' /\ (AtRest' => AtRest) BY <1>s DEF StaffShape, HeldInCatalogue, AtRest
<1>2. DocShape' /\ (Sound("idle", CatalogueNothing) => Sound("idle", CatalogueNothing)')
  BY <1>s, DocumentsKept DEF Sound
<1>3. ASSUME NEW w \in CatalogueStaff, OneAtATime(w)' PROVE SoundAt(w)'
  <2>1. OneAtATime(w) BY <1>3 DEF OneAtATime
  <2>2. SoundAt(w) BY <2>1 DEF SerialInv
  <2>3. PICK label, l : label = cataloguePc[w] /\ l = catalogueLoc[w] OBVIOUS
  <2>4. /\ OwnersLive /\ ProductsPlaced(label, l) /\ RecipesServable(label, l)
        /\ HeldSound(label, l)
    BY <2>2, <2>3 DEF SoundAt, Sound
  <2>5. /\ DocShape' /\ OwnersLive' /\ ProductsPlaced(label, l)' /\ RecipesServable(label, l)'
        /\ HeldSound(label, l)'
    BY <2>4, <1>s, DocumentsKept
  <2> QED BY <2>3, <2>5, SoundStays
<1> QED BY <1>1, <1>2, <1>3 DEF SerialInv

(* Where requests follow one another, whatever happens to caps in between, *)
(* nothing live refers to anything deleted whenever none is under way:     *)
(* each handler's checks cover all it writes, and each cascade             *)
(* (softDeleteRestaurant, deleteProduct, deleteCategory) clears in its     *)
(* later writes what its first one left behind.  The exceptions are those  *)
(* of ReferencesAreLive: products a menu file made, and the recipes of     *)
(* products an administrator moved.                                        *)
THEOREM ReferencesCorrect ==
    InitCatalogue /\ [][OneByOne]_catalogueVars => []ReferencesAreLive
<1>1. InitCatalogue => SerialInv BY SerialStart
<1>2. SerialInv /\ [OneByOne]_catalogueVars => SerialInv'
  <2> SUFFICES ASSUME SerialInv, [OneByOne]_catalogueVars PROVE SerialInv'
    OBVIOUS
  <2>1. CASE UNCHANGED catalogueVars
    BY <2>1, SerialKept DEF catalogueVars, Settled
  <2>2. ASSUME NEW w \in CatalogueStaff, OneAtATime(w), ChiefStep(w) \/ ClerkStep(w) PROVE SerialInv'
    BY <2>2, SerialStep
  <2>3. ASSUME NEW r \in Branches, ChangeCap(r) PROVE SerialInv'
    <3>1. Settled /\ UNCHANGED cataloguePc /\ UNCHANGED catalogueLoc BY <2>3 DEF Settled, ChangeCap
    <3> QED BY <3>1, SerialKept
  <2> QED BY <2>1, <2>2, <2>3 DEF OneByOne
<1>3. SerialInv => ReferencesAreLive
  <2> SUFFICES ASSUME SerialInv, AtRest PROVE ReferencesAreLive
    BY DEF ReferencesAreLive
  <2>1. /\ OwnersLive /\ ProductsPlaced("idle", CatalogueNothing)
        /\ RecipesServable("idle", CatalogueNothing)
    BY DEF SerialInv, Sound
  <2>2. \A p \in ProductIds : recipe[p] # NoRecipe /\ product[p].via # "move" =>
           p \in Live(product) /\ recipe[p].uses \subseteq Live(stuff)
    BY <2>1 DEF RecipesServable, Servable
  <2>3. \A p \in Live(product) : /\ product[p].section \in Live(section)
                                 /\ product[p].via # "file" => product[p].of \in Live(branch)
    BY <2>1 DEF ProductsPlaced
  <2> QED BY <2>1, <2>2, <2>3 DEF ReferencesAreLive, OwnersLive
<1> QED BY <1>1, <1>2, <1>3, PTL

-------------------------------------------------------------------------------
(* Imports.  No two requests work on one job at a time.                    *)
JobsApart == \A v, w \in Importers :
    v # w /\ importPc[v] # "idle" /\ importPc[w] # "idle" =>
        importLoc[v].jobs # importLoc[w].jobs

(* A request at work holds one job and some of its rows.                   *)
HoldsJob(held, j) == held.jobs = {j} /\ held.todo \subseteq FileRows[j]

ImportShape ==
    /\ DOMAIN job = Jobs
    /\ DOMAIN written = Jobs
    /\ \A j \in Jobs : written[j] \in [FileRows[j] -> Nat]
    /\ DOMAIN importPc = Importers /\ DOMAIN importLoc = Importers
    /\ \A w \in Importers : /\ DOMAIN importLoc[w] = {"jobs", "todo"}
                            /\ importPc[w] # "idle" => \E j \in Jobs : HoldsJob(importLoc[w], j)

IsSales(j) == ImportType[j] = "sales_history"

(* A row that is valid stays so until its product leaves the menu.         *)
Stays(r) == SalesRow(r) \/ r.product \in left

(* Sales are written for rows that are valid.                              *)
WrittenAreValid == \A j \in Jobs : IsSales(j) =>
    \A r \in FileRows[j] : written[j][r] > 0 => Stays(r)

Learned(r) == r.product \in left \/ <<r.date, r.product>> \in accepted

(* Titles leave the menu by the way out only, and for good.                *)
MenuKept == left \subseteq left' /\ onMenu \subseteq onMenu' \cup left'

(* What is written for the job is learned, or still to be sent.            *)
SentOrLeft(j, todo) == \A r \in FileRows[j] : written[j][r] > 0 => r \in todo \/ Learned(r)

(* What a request that holds job j is bound to.                            *)
Bound(label, j, todo) ==
    /\ label \in {"rows", "book"} => ~IsSales(j)
    /\ label \in {"insert", "ingest", "resend"} => IsSales(j)
    /\ label = "insert" => /\ job[j] # "completed"
                           /\ \A r \in FileRows[j] : written[j][r] > 0 => r \in todo \/ r.product \in left
                           /\ \A r \in todo : Stays(r)
    /\ label \in Sending => SentOrLeft(j, todo)
    /\ label = "completed" /\ IsSales(j) => SentOrLeft(j, {})

LearnInv ==
    /\ ImportShape /\ WrittenAreValid /\ CompletedIsLearned
    /\ \A w \in Importers, j \in Jobs :
          importPc[w] # "idle" /\ HoldsJob(importLoc[w], j) => Bound(importPc[w], j, importLoc[w].todo)

LEMMA JobHeld ==
    ASSUME NEW w \in Importers, NEW j \in Jobs, HoldsJob(importLoc[w], j)
    PROVE  JobOf(w) = j
BY DEF JobOf, HoldsJob

LEMMA ImportWalk ==
    ASSUME ImportShape, NEW w \in Importers, NEW label, NEW held, ImportGo(w, label, held)
    PROVE  /\ importPc'[w] = label /\ importLoc'[w] = held
           /\ \A v \in Importers : v # w => importPc'[v] = importPc[v] /\ importLoc'[v] = importLoc[v]
           /\ DOMAIN importPc' = Importers /\ DOMAIN importLoc' = Importers
BY DEF ImportShape, ImportGo

(* A step on job j leaves the sales of the other jobs alone.               *)
Aside(j) ==
    /\ MenuKept /\ accepted \subseteq accepted'
    /\ \A k \in Jobs : k # j => /\ written'[k] = written[k]
                                /\ job'[k] = "completed" => job[k] = "completed"

LEMMA BoundStays ==
    ASSUME LearnInv, NEW j \in Jobs, Aside(j), NEW v \in Importers, NEW k \in Jobs, k # j,
           importPc'[v] = importPc[v], importLoc'[v] = importLoc[v],
           importPc[v] # "idle", HoldsJob(importLoc[v], k)
    PROVE  Bound(importPc[v], k, importLoc[v].todo)'
<1>1. Bound(importPc[v], k, importLoc[v].todo) BY DEF LearnInv
<1>2. /\ written'[k] = written[k]
      /\ job'[k] = "completed" => job[k] = "completed"
      /\ left \subseteq left' /\ onMenu \subseteq onMenu' \cup left' /\ accepted \subseteq accepted'
  BY DEF Aside, MenuKept
<1>3. (IsSales(k) <=> IsSales(k)') /\ (\A r : Stays(r) => Stays(r)')
  BY <1>2 DEF IsSales, SalesRow, Stays
<1>4. SentOrLeft(k, importLoc[v].todo) => SentOrLeft(k, importLoc[v].todo)'
  BY <1>2 DEF SentOrLeft, Learned
<1>5. SentOrLeft(k, {}) => SentOrLeft(k, {})' BY <1>2 DEF SentOrLeft, Learned
<1> QED BY <1>1, <1>2, <1>3, <1>4, <1>5 DEF Bound, Sending

(* A walk to a label where the request still holds job j.                  *)
LEMMA ImportHolds ==
    ASSUME LearnInv, JobsApart', NEW w \in Importers, NEW label, NEW held, NEW j \in Jobs,
           ImportGo(w, label, held), label # "idle", DOMAIN held = {"jobs", "todo"},
           HoldsJob(held, j), Aside(j),
           DOMAIN job' = Jobs, DOMAIN written' = Jobs,
           \A k \in Jobs : written'[k] \in [FileRows[k] -> Nat],
           WrittenAreValid', CompletedIsLearned', Bound(label, j, held.todo)'
    PROVE  LearnInv'
<1>1. /\ importPc'[w] = label /\ importLoc'[w] = held
      /\ \A v \in Importers : v # w => importPc'[v] = importPc[v] /\ importLoc'[v] = importLoc[v]
      /\ DOMAIN importPc' = Importers /\ DOMAIN importLoc' = Importers
  BY ImportWalk DEF LearnInv
<1>2. ImportShape' BY <1>1 DEF LearnInv, ImportShape, HoldsJob
<1>3. ASSUME NEW v \in Importers, NEW k \in Jobs, importPc'[v] # "idle", HoldsJob(importLoc'[v], k)
      PROVE  Bound(importPc[v], k, importLoc[v].todo)'
  <2>1. CASE v = w
    <3>1. k = j BY <1>1, <1>3, <2>1 DEF HoldsJob
    <3> QED BY <1>1, <2>1, <3>1 DEF Bound, IsSales, Sending, SentOrLeft, Learned, SalesRow, Stays
  <2>2. CASE v # w
    <3>1. importLoc'[v].jobs # importLoc'[w].jobs BY <1>1, <1>3, <2>2 DEF JobsApart
    <3>2. k # j BY <1>1, <1>3, <3>1 DEF HoldsJob
    <3> QED BY <1>1, <1>3, <2>2, <3>2, BoundStays
  <2> QED BY <2>1, <2>2
<1> QED BY <1>2, <1>3 DEF LearnInv, HoldsJob

(* A request at work on job j goes back to rest.                           *)
LEMMA ImportRests ==
    ASSUME LearnInv, JobsApart, NEW w \in Importers, ImportDone(w), NEW j \in Jobs,
           importPc[w] # "idle", HoldsJob(importLoc[w], j), Aside(j),
           DOMAIN job' = Jobs, DOMAIN written' = Jobs,
           \A k \in Jobs : written'[k] \in [FileRows[k] -> Nat],
           WrittenAreValid', CompletedIsLearned'
    PROVE  LearnInv'
<1>1. ImportGo(w, "idle", ImportNothing) BY DEF ImportDone
<1>2. /\ importPc'[w] = "idle" /\ importLoc'[w] = ImportNothing
      /\ \A v \in Importers : v # w => importPc'[v] = importPc[v] /\ importLoc'[v] = importLoc[v]
      /\ DOMAIN importPc' = Importers /\ DOMAIN importLoc' = Importers
  BY <1>1, ImportWalk DEF LearnInv
<1>3. ImportShape' BY <1>2 DEF LearnInv, ImportShape, ImportNothing, HoldsJob
<1>4. ASSUME NEW v \in Importers, NEW k \in Jobs, importPc'[v] # "idle", HoldsJob(importLoc'[v], k)
      PROVE  Bound(importPc[v], k, importLoc[v].todo)'
  <2>1. v # w /\ importPc'[v] = importPc[v] /\ importLoc'[v] = importLoc[v] BY <1>2, <1>4
  <2>2. importLoc[v].jobs # importLoc[w].jobs BY <1>4, <2>1 DEF JobsApart
  <2>3. k # j BY <1>4, <2>1, <2>2 DEF HoldsJob
  <2> QED BY <1>4, <2>1, <2>3, BoundStays
<1> QED BY <1>3, <1>4 DEF LearnInv, HoldsJob

(* What leaves the books of sales alone.                                   *)
LEMMA SalesAlone ==
    ASSUME LearnInv, UNCHANGED <<accepted>>, MenuKept,
           \A j \in Jobs : IsSales(j) => written'[j] = written[j],
           \A j \in Jobs : job'[j] = "completed" => job[j] = "completed"
    PROVE  WrittenAreValid' /\ CompletedIsLearned'
BY DEF LearnInv, WrittenAreValid, CompletedIsLearned, IsSales, SalesRow, Stays, MenuKept

LEMMA HeldTodo ==
    ASSUME NEW held, DOMAIN held = {"jobs", "todo"}, NEW j, HoldsJob(held, j), NEW S
    PROVE  LET new == [held EXCEPT !.todo = @ \ S]
           IN  DOMAIN new = {"jobs", "todo"} /\ HoldsJob(new, j) /\ new.todo = held.todo \ S
BY DEF HoldsJob

LEMMA ConfirmLearns ==
    ASSUME LearnInv, JobsApart', NEW w \in Importers, ConfirmImport(w)
    PROVE  LearnInv'
<1>1. PICK j \in Jobs :
         /\ job[j] \notin {"none", "completed"}
         /\ IF ~OnboardedFor(j) \/ ValidRows(j) = {}
            THEN ImportGo(w, "failed", [jobs |-> {j}, todo |-> {}])
            ELSE ImportGo(w, IF ImportType[j] = "sales_history" THEN "insert" ELSE "rows",
                          [jobs |-> {j}, todo |-> ValidRows(j)])
  BY DEF ConfirmImport
<1>u. UNCHANGED <<job, onMenu, left, written, accepted>> BY DEF ConfirmImport
<1>p. WrittenAreValid' /\ CompletedIsLearned' BY <1>u, SalesAlone DEF MenuKept
<1>s. /\ Aside(j)
      /\ DOMAIN job' = Jobs /\ DOMAIN written' = Jobs
      /\ \A k \in Jobs : written'[k] \in [FileRows[k] -> Nat]
  BY <1>u DEF LearnInv, ImportShape, Aside, MenuKept
<1>2. ASSUME NEW todo, todo \subseteq FileRows[j], NEW label, label # "idle",
             Bound(label, j, todo)', ImportGo(w, label, [jobs |-> {j}, todo |-> todo])
      PROVE  LearnInv'
  <2>1. PICK held : held = [jobs |-> {j}, todo |-> todo] OBVIOUS
  <2>2. DOMAIN held = {"jobs", "todo"} /\ HoldsJob(held, j) /\ held.todo = todo
    BY <1>2, <2>1 DEF HoldsJob
  <2>3. Bound(label, j, held.todo)' BY <1>2, <2>2
  <2> QED BY <1>2, <1>p, <1>s, <2>1, <2>2, <2>3, ImportHolds
<1>3. CASE ~OnboardedFor(j) \/ ValidRows(j) = {}
  <2>1. Bound("failed", j, {})' BY DEF Bound, Sending
  <2> QED BY <1>1, <1>2, <1>3, <2>1
<1>4. CASE ~(~OnboardedFor(j) \/ ValidRows(j) = {})
  <2> DEFINE label == IF ImportType[j] = "sales_history" THEN "insert" ELSE "rows"
  <2>1. ValidRows(j) \subseteq FileRows[j] BY DEF ValidRows
  <2>2. PICK todo : todo = ValidRows(j) OBVIOUS
  <2>3. IsSales(j) => \A r \in FileRows[j] : written[j][r] > 0 => r \in todo \/ r.product \in left
    <3> SUFFICES ASSUME IsSales(j), NEW r \in FileRows[j], written[j][r] > 0, r.product \notin left
                 PROVE  r \in ValidRows(j)
      BY <2>2
    <3>1. SalesRow(r) BY DEF LearnInv, WrittenAreValid, Stays
    <3> QED BY <3>1 DEF ValidRows, IsSales
  <2>v. IsSales(j) => \A r \in todo : Stays(r) BY <2>2 DEF ValidRows, IsSales, Stays
  <2>4. Bound(label, j, todo)' BY <1>1, <1>u, <2>3, <2>v DEF Bound, IsSales, Sending, SalesRow, Stays
  <2>5. ImportGo(w, label, [jobs |-> {j}, todo |-> todo]) BY <1>1, <1>4, <2>2
  <2> QED BY <1>2, <2>1, <2>2, <2>4, <2>5
<1> QED BY <1>3, <1>4

(* Rows of the other files: no sale is touched.                            *)
LEMMA RowLearns ==
    ASSUME LearnInv, JobsApart', NEW w \in Importers,
           UpsertMenuItem(w) \/ UpsertIngredient(w) \/ ReplaceRecipe(w)
             \/ CreateImportedBatch(w) \/ BookImportedBatch(w) \/ RowsDone(w)
    PROVE  LearnInv'
<1>1. importPc[w] \in {"rows", "book"}
  BY DEF UpsertMenuItem, UpsertIngredient, ReplaceRecipe, CreateImportedBatch, BookImportedBatch,
         RowsDone
<1>2. PICK j \in Jobs : HoldsJob(importLoc[w], j) BY <1>1 DEF LearnInv, ImportShape
<1>3. ~IsSales(j) /\ JobOf(w) = j BY <1>1, <1>2, JobHeld DEF LearnInv, Bound
<1>d. DOMAIN importLoc[w] = {"jobs", "todo"} BY DEF LearnInv, ImportShape
<1> DEFINE Walked(label, held) == /\ ImportGo(w, label, held)
                                  /\ DOMAIN held = {"jobs", "todo"} /\ HoldsJob(held, j)
<1>e. \E label \in {"rows", "book", "completed", "failed"} : \E held : Walked(label, held)
  <2>1. CASE UpsertMenuItem(w)
    <3>1. \/ \E r : ImportGo(w, "rows", [importLoc[w] EXCEPT !.todo = @ \ {r}])
          \/ ImportGo(w, "failed", importLoc[w])
      BY <2>1 DEF UpsertMenuItem
    <3> QED BY <3>1, <1>2, <1>d, HeldTodo
  <2>2. CASE UpsertIngredient(w) BY <2>2, <1>2, <1>d, HeldTodo DEF UpsertIngredient
  <2>3. CASE ReplaceRecipe(w)
    <3>1. \E group : ImportGo(w, "rows", [importLoc[w] EXCEPT !.todo = @ \ group])
      BY <2>3 DEF ReplaceRecipe
    <3> QED BY <3>1, <1>2, <1>d, HeldTodo
  <2>4. CASE CreateImportedBatch(w) BY <2>4, <1>2, <1>d DEF CreateImportedBatch
  <2>5. CASE BookImportedBatch(w) BY <2>5, <1>2, <1>d, HeldTodo DEF BookImportedBatch
  <2>6. CASE RowsDone(w) BY <2>6, <1>2, <1>d DEF RowsDone
  <2> QED BY <2>1, <2>2, <2>3, <2>4, <2>5, <2>6
<1>4. PICK label, held : label \in {"rows", "book", "completed", "failed"} /\ Walked(label, held) BY <1>e
<1>u. UNCHANGED <<job, left, accepted>> /\ onMenu \subseteq onMenu'
  BY DEF UpsertMenuItem, UpsertIngredient, ReplaceRecipe, CreateImportedBatch, BookImportedBatch,
         RowsDone
<1>w. /\ DOMAIN written' = Jobs
      /\ \A k \in Jobs : written'[k] \in [FileRows[k] -> Nat] /\ (k # j => written'[k] = written[k])
  <2>1. CASE CreateImportedBatch(w)
    <3>1. PICK r \in importLoc[w].todo : written' = [written EXCEPT ![j][r] = @ + 1]
      BY <2>1, <1>3 DEF CreateImportedBatch
    <3>2. r \in FileRows[j] BY <1>2 DEF HoldsJob
    <3>3. DOMAIN written = Jobs /\ \A k \in Jobs : written[k] \in [FileRows[k] -> Nat]
      BY DEF LearnInv, ImportShape
    <3>4. written[j][r] + 1 \in Nat BY <3>2, <3>3
    <3>5. [written[j] EXCEPT ![r] = @ + 1] \in [FileRows[j] -> Nat] BY <3>2, <3>3, <3>4
    <3>6. /\ DOMAIN written' = Jobs
          /\ written'[j] = [written[j] EXCEPT ![r] = @ + 1]
          /\ \A k \in Jobs : k # j => written'[k] = written[k]
      BY <3>1, <3>3
    <3> QED BY <3>3, <3>5, <3>6
  <2>2. CASE ~CreateImportedBatch(w)
    BY <2>2 DEF UpsertMenuItem, UpsertIngredient, ReplaceRecipe, BookImportedBatch, RowsDone,
                LearnInv, ImportShape
  <2> QED BY <2>1, <2>2
<1>p. WrittenAreValid' /\ CompletedIsLearned' BY <1>u, <1>w, <1>3, SalesAlone DEF MenuKept
<1>5. Bound(label, j, held.todo)' BY <1>3, <1>4 DEF Bound, Sending, IsSales
<1>6. DOMAIN job' = Jobs BY <1>u DEF LearnInv, ImportShape
<1>7. Aside(j) BY <1>u, <1>w DEF Aside, MenuKept
<1> QED BY <1>4, <1>5, <1>6, <1>7, <1>w, <1>p, ImportHolds

(* Rows that are inserted: none of the others is.                          *)
LEMMA InsertedRows ==
    ASSUME ImportShape, NEW j \in Jobs, NEW S
    PROVE  /\ DOMAIN Inserted(j, S) = Jobs
           /\ \A k \in Jobs : Inserted(j, S)[k] \in [FileRows[k] -> Nat]
           /\ \A k \in Jobs : k # j => Inserted(j, S)[k] = written[k]
           /\ \A r \in FileRows[j] : Inserted(j, S)[j][r] > 0 => written[j][r] > 0 \/ r \in S
           /\ \A r \in FileRows[j] : r \notin S => Inserted(j, S)[j][r] = written[j][r]
<1>1. DOMAIN written = Jobs /\ \A k \in Jobs : written[k] \in [FileRows[k] -> Nat] BY DEF ImportShape
<1>2. \A r \in FileRows[j] : written[j][r] \in Nat BY <1>1
<1> DEFINE row == [r \in FileRows[j] |-> written[j][r] + IF r \in S THEN 1 ELSE 0]
<1>3. Inserted(j, S) = [written EXCEPT ![j] = row] BY DEF Inserted
<1>4. /\ row \in [FileRows[j] -> Nat]
      /\ \A r \in FileRows[j] : row[r] > 0 => written[j][r] > 0 \/ r \in S
      /\ \A r \in FileRows[j] : r \notin S => row[r] = written[j][r]
  BY <1>2
<1> HIDE DEF row
<1>5. /\ DOMAIN Inserted(j, S) = Jobs
      /\ Inserted(j, S)[j] = row
      /\ \A k \in Jobs : k # j => Inserted(j, S)[k] = written[k]
  BY <1>1, <1>3
<1> QED BY <1>1, <1>4, <1>5

LEMMA InsertLearns ==
    ASSUME LearnInv, JobsApart', NEW w \in Importers, InsertSales(w)
    PROVE  LearnInv'
<1>1. importPc[w] = "insert" BY DEF InsertSales
<1>2. PICK j \in Jobs : HoldsJob(importLoc[w], j) BY <1>1 DEF LearnInv, ImportShape
<1> DEFINE todo == importLoc[w].todo
<1>3. /\ JobOf(w) = j /\ IsSales(j) /\ job[j] # "completed"
      /\ \A r \in FileRows[j] : written[j][r] > 0 => r \in todo \/ r.product \in left
      /\ \A r \in todo : Stays(r)
  BY <1>1, <1>2, JobHeld DEF LearnInv, Bound
<1>4. /\ written' = Inserted(j, todo) /\ ImportGo(w, "ingest", importLoc[w])
      /\ UNCHANGED <<job, onMenu, left, accepted>>
  BY <1>3 DEF InsertSales
<1>5. /\ DOMAIN written' = Jobs
      /\ \A k \in Jobs : written'[k] \in [FileRows[k] -> Nat]
      /\ \A k \in Jobs : k # j => written'[k] = written[k]
      /\ \A r \in FileRows[j] : written'[j][r] > 0 => r \in todo \/ r.product \in left
  BY <1>3, <1>4, InsertedRows DEF LearnInv
<1>6. CompletedIsLearned' BY <1>3, <1>4, <1>5 DEF LearnInv, CompletedIsLearned
<1>8. WrittenAreValid'
  <2> SUFFICES ASSUME NEW k \in Jobs, IsSales(k), NEW r \in FileRows[k], written'[k][r] > 0
               PROVE  Stays(r)'
    BY DEF WrittenAreValid, IsSales
  <2>1. CASE k # j BY <2>1, <1>4, <1>5 DEF LearnInv, WrittenAreValid, SalesRow, Stays
  <2>2. CASE k = j
    <3>1. r \in todo \/ r.product \in left BY <2>2, <1>5
    <3>2. Stays(r) BY <1>3, <3>1 DEF Stays
    <3>3. UNCHANGED <<onMenu, left>> BY <1>4
    <3> QED BY <3>2, <3>3 DEF Stays, SalesRow
  <2> QED BY <2>1, <2>2
<1>10. PICK held : held = importLoc[w] OBVIOUS
<1>11. Bound("ingest", j, held.todo)'
  BY <1>3, <1>4, <1>5, <1>10 DEF Bound, Sending, SentOrLeft, IsSales, Learned
<1>12. DOMAIN job' = Jobs /\ DOMAIN held = {"jobs", "todo"} BY <1>4, <1>10 DEF LearnInv, ImportShape
<1>13. Aside(j) BY <1>4, <1>5 DEF Aside, MenuKept
<1> QED BY <1>2, <1>4, <1>5, <1>6, <1>8, <1>10, <1>11, <1>12, <1>13, ImportHolds

(* A request to send the rows written for a job again.                     *)
LEMMA RetryLearns ==
    ASSUME LearnInv, JobsApart', NEW w \in Importers, RetryAiIngest(w)
    PROVE  LearnInv'
<1>1. PICK j \in Jobs :
         /\ ImportType[j] = "sales_history"
         /\ ImportGo(w, "resend", [jobs |-> {j}, todo |-> {r \in FileRows[j] : written[j][r] > 0}])
  BY DEF RetryAiIngest
<1>2. PICK todo : todo = {r \in FileRows[j] : written[j][r] > 0} OBVIOUS
<1>3. PICK held : held = [jobs |-> {j}, todo |-> todo] OBVIOUS
<1>4. DOMAIN held = {"jobs", "todo"} /\ HoldsJob(held, j) /\ held.todo = todo
  BY <1>2, <1>3 DEF HoldsJob
<1>u. UNCHANGED <<job, onMenu, left, written, accepted>> BY DEF RetryAiIngest
<1>5. WrittenAreValid' /\ CompletedIsLearned' BY <1>u, SalesAlone DEF MenuKept
<1>6. Bound("resend", j, held.todo)' BY <1>1, <1>2, <1>4, <1>u DEF Bound, Sending, SentOrLeft, IsSales, Learned
<1>7. ImportGo(w, "resend", held) BY <1>1, <1>2, <1>3
<1>8. Aside(j) BY <1>u DEF Aside, MenuKept
<1> QED BY <1>4, <1>5, <1>6, <1>7, <1>8, <1>u, ImportHolds DEF LearnInv, ImportShape

(* Chunk after chunk.                                                      *)
LEMMA IngestLearns ==
    ASSUME LearnInv, JobsApart', NEW w \in Importers, Ingest(w)
    PROVE  LearnInv'
<1>1. importPc[w] \in Sending BY DEF Ingest
<1>2. PICK j \in Jobs : HoldsJob(importLoc[w], j) BY <1>1 DEF LearnInv, ImportShape, Sending
<1>3. IsSales(j) /\ SentOrLeft(j, importLoc[w].todo)
  BY <1>1, <1>2 DEF LearnInv, Bound, Sending
<1>u. UNCHANGED <<job, onMenu, left, written>> BY DEF Ingest
<1>d. DOMAIN importLoc[w] = {"jobs", "todo"} BY DEF LearnInv, ImportShape
<1>4. ASSUME NEW label, label # "idle", NEW held, DOMAIN held = {"jobs", "todo"}, HoldsJob(held, j),
             ImportGo(w, label, held), accepted \subseteq accepted', Bound(label, j, held.todo)'
      PROVE  LearnInv'
  <2>1. WrittenAreValid' /\ CompletedIsLearned'
    BY <1>u, <1>4 DEF LearnInv, WrittenAreValid, CompletedIsLearned, SalesRow, Stays, IsSales
  <2>2. Aside(j) BY <1>u, <1>4 DEF Aside, MenuKept
  <2> QED BY <1>4, <1>u, <2>1, <2>2, ImportHolds DEF LearnInv, ImportShape
<1>5. CASE importLoc[w].todo = {}
  <2>1. ImportGo(w, "completed", importLoc[w]) /\ UNCHANGED accepted BY <1>5 DEF Ingest
  <2>2. PICK held : held = importLoc[w] OBVIOUS
  <2>3. Bound("completed", j, held.todo)'
    BY <1>3, <1>5, <1>u, <2>1, <2>2 DEF Bound, Sending, SentOrLeft, IsSales, Learned
  <2> QED BY <1>2, <1>4, <1>d, <2>1, <2>2, <2>3
<1>6. CASE importLoc[w].todo # {}
  <2>1. PICK chunk \in SUBSET importLoc[w].todo :
           \/ /\ accepted' = accepted \cup {<<r.date, r.product>> : r \in chunk}
              /\ ImportGo(w, importPc[w], [importLoc[w] EXCEPT !.todo = @ \ chunk])
           \/ ImportGo(w, "ai_ingest_failed", importLoc[w]) /\ UNCHANGED accepted
    BY <1>6 DEF Ingest
  <2>2. CASE /\ accepted' = accepted \cup {<<r.date, r.product>> : r \in chunk}
             /\ ImportGo(w, importPc[w], [importLoc[w] EXCEPT !.todo = @ \ chunk])
    <3>1. PICK held : held = [importLoc[w] EXCEPT !.todo = @ \ chunk] OBVIOUS
    <3>2. PICK label : label = importPc[w] OBVIOUS
    <3>3. DOMAIN held = {"jobs", "todo"} /\ HoldsJob(held, j) /\ held.todo = importLoc[w].todo \ chunk
      BY <1>2, <1>d, <3>1, HeldTodo
    <3>4. SentOrLeft(j, held.todo)'
      <4>1. \A r \in chunk : <<r.date, r.product>> \in accepted' BY <2>2
      <4> QED BY <1>3, <1>u, <2>2, <3>3, <4>1 DEF SentOrLeft, Learned
    <3>5. Bound(label, j, held.todo)' BY <1>1, <1>3, <3>2, <3>4 DEF Bound, Sending, IsSales
    <3>6. label # "idle" BY <1>1, <3>2 DEF Sending
    <3> QED BY <1>4, <2>2, <3>1, <3>2, <3>3, <3>5, <3>6
  <2>3. CASE ImportGo(w, "ai_ingest_failed", importLoc[w]) /\ UNCHANGED accepted
    <3>1. PICK held : held = importLoc[w] OBVIOUS
    <3>2. Bound("ai_ingest_failed", j, held.todo)' BY DEF Bound, Sending
    <3> QED BY <1>2, <1>4, <1>d, <2>3, <3>1, <3>2
  <2> QED BY <2>1, <2>2, <2>3
<1> QED BY <1>5, <1>6

LEMMA StatusLearns ==
    ASSUME LearnInv, JobsApart, NEW w \in Importers, WriteStatus(w)
    PROVE  LearnInv'
<1>1. importPc[w] \in {"completed", "failed", "ai_ingest_failed"} BY DEF WriteStatus
<1>2. PICK j \in Jobs : HoldsJob(importLoc[w], j) BY <1>1 DEF LearnInv, ImportShape
<1>3. JobOf(w) = j BY <1>2, JobHeld
<1>4. /\ job' = [job EXCEPT ![j] = importPc[w]] /\ ImportDone(w)
      /\ UNCHANGED <<onMenu, left, written, accepted>>
  BY <1>3 DEF WriteStatus
<1>5. /\ DOMAIN job' = Jobs /\ job'[j] = importPc[w]
      /\ \A k \in Jobs : k # j => job'[k] = job[k]
  BY <1>4 DEF LearnInv, ImportShape
<1>6. importPc[w] = "completed" /\ IsSales(j) => SentOrLeft(j, {})
  BY <1>1, <1>2 DEF LearnInv, Bound
<1>7. CompletedIsLearned'
  <2> SUFFICES ASSUME NEW k \in Jobs, job'[k] = "completed", IsSales(k),
                      NEW r \in FileRows[k], written[k][r] > 0, r.product \notin left
               PROVE  <<r.date, r.product>> \in accepted
    BY <1>4 DEF CompletedIsLearned, IsSales
  <2>1. CASE k = j BY <2>1, <1>5, <1>6 DEF SentOrLeft, Learned
  <2>2. CASE k # j BY <2>2, <1>5 DEF LearnInv, CompletedIsLearned, IsSales
  <2> QED BY <2>1, <2>2
<1>8. WrittenAreValid' BY <1>4 DEF LearnInv, WrittenAreValid, SalesRow, Stays, IsSales
<1>9. Aside(j) BY <1>4, <1>5 DEF Aside, MenuKept
<1>10. importPc[w] # "idle" BY <1>1
<1> QED BY <1>2, <1>4, <1>5, <1>7, <1>8, <1>9, <1>10, ImportRests DEF LearnInv, ImportShape

(* A confirmation that breaks may leave sales behind, of valid rows of a   *)
(* job that is not completed.                                              *)
LEMMA BreakLearns ==
    ASSUME LearnInv, JobsApart', NEW w \in Importers, ConfirmationBreaks(w)
    PROVE  LearnInv'
<1>1. importPc[w] \in {"rows", "book", "insert", "ingest"} BY DEF ConfirmationBreaks
<1>2. PICK j \in Jobs : HoldsJob(importLoc[w], j) BY <1>1 DEF LearnInv, ImportShape
<1>3. JobOf(w) = j BY <1>2, JobHeld
<1>4. PICK S \in SUBSET importLoc[w].todo :
         (importPc[w] # "insert" => S = {}) /\ written' = Inserted(j, S)
  BY <1>3 DEF ConfirmationBreaks
<1>u. UNCHANGED <<job, onMenu, left, accepted>> /\ ImportGo(w, "failed", importLoc[w])
  BY DEF ConfirmationBreaks
<1>5. /\ DOMAIN written' = Jobs
      /\ \A k \in Jobs : written'[k] \in [FileRows[k] -> Nat]
      /\ \A k \in Jobs : k # j => written'[k] = written[k]
      /\ \A r \in FileRows[j] : written'[j][r] > 0 => written[j][r] > 0 \/ r \in S
  BY <1>4, InsertedRows DEF LearnInv
<1>6. importPc[w] = "insert" => job[j] # "completed" /\ \A r \in importLoc[w].todo : Stays(r)
  BY <1>2 DEF LearnInv, Bound
<1>7. CompletedIsLearned'
  <2> SUFFICES ASSUME NEW k \in Jobs, job[k] = "completed", IsSales(k),
                      NEW r \in FileRows[k], written'[k][r] > 0, r.product \notin left
               PROVE  <<r.date, r.product>> \in accepted
    BY <1>u DEF CompletedIsLearned, IsSales
  <2>1. written[k][r] > 0 BY <1>4, <1>5, <1>6
  <2> QED BY <2>1 DEF LearnInv, CompletedIsLearned, IsSales
<1>8. WrittenAreValid'
  <2> SUFFICES ASSUME NEW k \in Jobs, IsSales(k), NEW r \in FileRows[k], written'[k][r] > 0
               PROVE  Stays(r)
    BY <1>u DEF WrittenAreValid, IsSales, SalesRow, Stays
  <2>1. written[k][r] > 0 \/ (k = j /\ r \in S) BY <1>5
  <2> QED BY <2>1, <1>4, <1>6 DEF LearnInv, WrittenAreValid
<1>9. PICK held : held = importLoc[w] OBVIOUS
<1>10. Bound("failed", j, held.todo)' BY DEF Bound, Sending
<1>11. Aside(j) BY <1>5, <1>u DEF Aside, MenuKept
<1> QED BY <1>2, <1>5, <1>u, <1>7, <1>8, <1>9, <1>10, <1>11, ImportHolds DEF LearnInv, ImportShape

(* A job that says COMPLETED has no sale of a product that never left the  *)
(* menu which the forecasting service does not hold, whatever failed,      *)
(* stopped or was repeated before: proved for files and chunks of any size *)
(* and any number of requests that interleave, of which no two work on one *)
(* job at a time.                                                          *)
THEOREM LearnedCorrect == SpecImports /\ []JobsApart => []CompletedIsLearned
<1>1. InitImports => LearnInv
  <2> SUFFICES ASSUME InitImports PROVE LearnInv OBVIOUS
  <2>1. /\ DOMAIN job = Jobs /\ DOMAIN written = Jobs
        /\ \A j \in Jobs : job[j] = "none" /\ written[j] = [r \in FileRows[j] |-> 0]
        /\ DOMAIN importPc = Importers /\ DOMAIN importLoc = Importers
        /\ \A w \in Importers : importPc[w] = "idle" /\ importLoc[w] = ImportNothing
    BY DEF InitImports, NoCount
  <2>2. \A j \in Jobs : /\ written[j] \in [FileRows[j] -> Nat]
                        /\ \A r \in FileRows[j] : ~(written[j][r] > 0)
    BY <2>1
  <2>3. ImportShape BY <2>1, <2>2 DEF ImportShape, ImportNothing
  <2> QED BY <2>1, <2>2, <2>3 DEF LearnInv, WrittenAreValid, CompletedIsLearned
<1>2. LearnInv /\ JobsApart /\ JobsApart' /\ [NextImports]_importVars => LearnInv'
  <2> SUFFICES ASSUME LearnInv, JobsApart, JobsApart', [NextImports]_importVars PROVE LearnInv'
    OBVIOUS
  <2>1. ASSUME NEW w \in Importers, CreateImport(w) PROVE LearnInv'
    <3>1. PICK j \in Jobs : job[j] = "none" /\ job' = [job EXCEPT ![j] = "processing"]
      BY <2>1 DEF CreateImport
    <3>2. /\ DOMAIN job' = Jobs
          /\ \A k \in Jobs : job'[k] = "completed" => job[k] = "completed"
      BY <3>1 DEF LearnInv, ImportShape
    <3>3. UNCHANGED <<onMenu, left, written, accepted, importPc, importLoc>> /\ importPc[w] = "idle"
      BY <2>1 DEF CreateImport
    <3>4. WrittenAreValid' /\ CompletedIsLearned' BY <3>2, <3>3, SalesAlone DEF MenuKept
    <3>5. ImportShape' BY <3>2, <3>3 DEF LearnInv, ImportShape, HoldsJob
    <3>6. ASSUME NEW v \in Importers, NEW k \in Jobs,
                 importPc[v] # "idle", HoldsJob(importLoc[v], k)
          PROVE  Bound(importPc[v], k, importLoc[v].todo)'
      <4>1. Bound(importPc[v], k, importLoc[v].todo) BY <3>6 DEF LearnInv
      <4> QED BY <3>2, <3>3, <4>1 DEF Bound, IsSales, Sending, SentOrLeft, Learned, SalesRow, Stays
    <3> QED BY <3>3, <3>4, <3>5, <3>6 DEF LearnInv, HoldsJob
  <2>2. ASSUME NEW w \in Importers, ImporterDies(w) PROVE LearnInv'
    <3>1. /\ UNCHANGED <<job, onMenu, left, written, accepted>> /\ ImportDone(w)
          /\ importPc[w] # "idle"
      BY <2>2 DEF ImporterDies
    <3>2. WrittenAreValid' /\ CompletedIsLearned' BY <3>1, SalesAlone DEF MenuKept
    <3>3. PICK j \in Jobs : HoldsJob(importLoc[w], j) BY <3>1 DEF LearnInv, ImportShape
    <3>4. Aside(j) BY <3>1 DEF Aside, MenuKept
    <3> QED BY <3>1, <3>2, <3>3, <3>4, ImportRests DEF LearnInv, ImportShape
  <2>3. ASSUME MenuKept, UNCHANGED <<job, written, accepted, importPc, importLoc>> PROVE LearnInv'
    <3>1. WrittenAreValid' /\ CompletedIsLearned' BY <2>3, SalesAlone
    <3>2. ImportShape' BY <2>3 DEF LearnInv, ImportShape, HoldsJob
    <3>3. ASSUME NEW w \in Importers, NEW j \in Jobs,
                 importPc[w] # "idle", HoldsJob(importLoc[w], j)
          PROVE  Bound(importPc[w], j, importLoc[w].todo)'
      <4>1. Bound(importPc[w], j, importLoc[w].todo) BY <3>3 DEF LearnInv
      <4>2. \A r : (Stays(r) => Stays(r)') /\ (Learned(r) => Learned(r)')
        BY <2>3 DEF MenuKept, Stays, SalesRow, Learned
      <4> QED BY <2>3, <4>1, <4>2 DEF Bound, IsSales, Sending, SentOrLeft, MenuKept
    <3> QED BY <2>3, <3>1, <3>2, <3>3 DEF LearnInv, HoldsJob
  <2>4. CASE TitleLeaves \/ CodeLeaves \/ UNCHANGED importVars
    <3>1. MenuKept /\ UNCHANGED <<job, written, accepted, importPc, importLoc>>
      BY <2>4 DEF TitleLeaves, CodeLeaves, importVars, MenuKept
    <3> QED BY <2>3, <3>1
  <2> QED BY <2>1, <2>2, <2>4, ConfirmLearns, RowLearns, InsertLearns, RetryLearns, IngestLearns,
             StatusLearns, BreakLearns DEF NextImports, ImporterStep
<1>3. LearnInv => CompletedIsLearned BY DEF LearnInv
<1> QED BY <1>1, <1>2, <1>3, PTL DEF SpecImports

-------------------------------------------------------------------------------
(* Sessions.                                                               *)
Tokens == [of : Customers, kind : {"access", "refresh", "reset"}, iat : Nat, revoked : Int, logouts : Nat]

SessionShape ==
    /\ second \in Nat
    /\ token \in Seq(Tokens)
    /\ DOMAIN account = Customers
    /\ \A u \in Customers : /\ DOMAIN account[u] = DOMAIN NoAccount
                            /\ account[u].logouts \in Nat
                            /\ account[u].tokensRevokedAt \in Int
                            /\ account[u].tokensRevokedAt <= second
    /\ DOMAIN accountPc = Visitors /\ DOMAIN accountLoc = Visitors

(* A token of a session is of the latest one of its account, or no younger *)
(* than the logout that ended its own.                                     *)
TokenEnds(t) ==
    /\ t.iat <= second
    /\ t.kind # "reset" => \/ t.logouts = account[t.of].logouts
                           \/ t.iat <= account[t.of].tokensRevokedAt

Rotation == {"rotate", "revokeOld", "issuePair"}

(* No logout of an account while one of its sessions is being renewed:     *)
(* the pair the rotation issues would outlive the logout.                  *)
LogoutsApart ==
    \A v, w \in Visitors : accountPc[v] = "stampLogout" /\ accountPc[w] \in Rotation
                              => token[accountLoc[w].token].of # accountLoc[v].user

Spending == {"verify", "spendCode", "issueReset"}

(* The token a rotation stands on.                                         *)
StandsOn(i) == /\ i \in DOMAIN token /\ token[i].kind # "reset"
               /\ token[i].logouts = account[token[i].of].logouts

SessionInv ==
    /\ SessionShape
    /\ \A i \in DOMAIN token : TokenEnds(token[i])
    /\ \A v \in Visitors :
          /\ accountPc[v] \in Rotation => StandsOn(accountLoc[v].token)
          /\ accountPc[v] \in Spending => accountLoc[v].user \in Customers

LEMMA VisitFields ==
    /\ DOMAIN NoAccount = {"live", "verified", "active", "passwordChangedAt", "tokensRevokedAt",
                           "addresses", "logouts"}
    /\ DOMAIN NoVisit = {"user", "type", "token", "other", "id", "book"}
BY DEF NoAccount, NoVisit

LEMMA VisitWalk ==
    ASSUME SessionShape, NEW v \in Visitors, NEW label, NEW held, VisitGo(v, label, held)
    PROVE  /\ accountPc'[v] = label /\ accountLoc'[v] = held
           /\ \A w \in Visitors : w # v => accountPc'[w] = accountPc[w] /\ accountLoc'[w] = accountLoc[w]
           /\ DOMAIN accountPc' = Visitors /\ DOMAIN accountLoc' = Visitors
BY DEF SessionShape, VisitGo

(* The tokens on file keep their owner, kind, time and session.            *)
SameTokens == /\ token' \in Seq(Tokens)
              /\ \A i \in DOMAIN token : /\ i \in DOMAIN token'
                                         /\ token'[i].of = token[i].of
                                         /\ token'[i].kind = token[i].kind
                                         /\ token'[i].iat = token[i].iat
                                         /\ token'[i].logouts = token[i].logouts

SameLogouts == /\ DOMAIN account' = Customers
               /\ \A u \in Customers : /\ DOMAIN account'[u] = DOMAIN NoAccount
                                       /\ account'[u].logouts = account[u].logouts
                                       /\ account'[u].tokensRevokedAt = account[u].tokensRevokedAt

LEMMA TokenHas ==
    ASSUME SessionShape, NEW i \in DOMAIN token
    PROVE  /\ token[i] \in Tokens /\ token[i].of \in Customers
           /\ token[i].iat \in Nat /\ token[i].logouts \in Nat
<1>1. token \in Seq(Tokens) /\ i \in 1..Len(token) BY DEF SessionShape
<1>2. token[i] \in Tokens BY <1>1
<1>3. PICK t : t = token[i] OBVIOUS
<1>4. t.of \in Customers /\ t.iat \in Nat /\ t.logouts \in Nat BY <1>2, <1>3 DEF Tokens
<1> QED BY <1>2, <1>3, <1>4

(* Revoking a token changes nothing else of it.                            *)
LEMMA RevokeKeeps ==
    ASSUME SessionShape, NEW i, token' = Revoke(i)
    PROVE  SameTokens /\ DOMAIN token' = DOMAIN token
<1>1. CASE token' = token BY <1>1 DEF SessionShape, SameTokens
<1>2. CASE token' = [token EXCEPT ![i].revoked = second]
  <2>1. DOMAIN token = 1..Len(token) /\ Len(token) \in Nat BY DEF SessionShape
  <2>2. DOMAIN token' = DOMAIN token BY <1>2
  <2>3. ASSUME NEW j \in DOMAIN token
        PROVE  /\ token'[j] \in Tokens /\ token'[j].of = token[j].of
               /\ token'[j].kind = token[j].kind /\ token'[j].iat = token[j].iat
               /\ token'[j].logouts = token[j].logouts
    <3>1. token[j] \in Tokens BY <2>3, TokenHas
    <3>2. PICK t : t = token[j] OBVIOUS
    <3>3. PICK n : n = [t EXCEPT !.revoked = second] OBVIOUS
    <3>0. t \in Tokens /\ second \in Int BY <3>1, <3>2 DEF SessionShape
    <3>4. n \in Tokens /\ n.of = t.of /\ n.kind = t.kind /\ n.iat = t.iat /\ n.logouts = t.logouts
      BY <3>0, <3>3 DEF Tokens
    <3>5. token'[j] = t \/ token'[j] = n BY <1>2, <3>2, <3>3
    <3> QED BY <3>1, <3>2, <3>4, <3>5
  <2>4. token' \in [1..Len(token) -> Tokens] BY <1>2, <2>1, <2>2, <2>3
  <2>5. token' \in Seq(Tokens) BY <2>1, <2>4
  <2> QED BY <2>2, <2>3, <2>5 DEF SameTokens
<1> QED BY <1>1, <1>2 DEF Revoke

LEMMA AppendKeeps ==
    ASSUME SessionShape, NEW t \in Tokens, token' = Append(token, t)
    PROVE  SameTokens /\ \A i \in DOMAIN token' : i \in DOMAIN token \/ token'[i] = t
<1>1. token' \in Seq(Tokens) /\ Len(token') = Len(token) + 1 /\ token'[Len(token) + 1] = t
  BY DEF SessionShape
<1>2. \A i \in 1..Len(token) : token'[i] = token[i] BY DEF SessionShape
<1>3. DOMAIN token = 1..Len(token) /\ DOMAIN token' = 1..Len(token') /\ Len(token) \in Nat
  BY <1>1 DEF SessionShape
<1> QED BY <1>1, <1>2, <1>3 DEF SameTokens

LEMMA PairKeeps ==
    ASSUME SessionShape, NEW u \in Customers, NEW logouts \in Nat,
           token' = token \o TokenPair(u, logouts)
    PROVE  /\ SameTokens
           /\ \A i \in DOMAIN token' : \/ i \in DOMAIN token
                                       \/ /\ token'[i].of = u /\ token'[i].iat = second
                                          /\ token'[i].logouts = logouts
<1>1. PICK p : p = TokenPair(u, logouts) OBVIOUS
<1>2. PICK a : a = Token(u, "access", logouts) OBVIOUS
<1>3. PICK r : r = Token(u, "refresh", logouts) OBVIOUS
<1>4. \A t \in {a, r} : t \in Tokens /\ t.of = u /\ t.iat = second /\ t.logouts = logouts
  <2>1. second \in Nat BY DEF SessionShape
  <2>2. /\ a = [of |-> u, kind |-> "access", iat |-> second, revoked |-> -1, logouts |-> logouts]
        /\ r = [of |-> u, kind |-> "refresh", iat |-> second, revoked |-> -1, logouts |-> logouts]
    BY <1>2, <1>3 DEF Token, Never
  <2>3. a \in Tokens /\ a.of = u /\ a.iat = second /\ a.logouts = logouts BY <2>1, <2>2 DEF Tokens
  <2>4. r \in Tokens /\ r.of = u /\ r.iat = second /\ r.logouts = logouts BY <2>1, <2>2 DEF Tokens
  <2> QED BY <2>3, <2>4
<1>5. p = <<a, r>> BY <1>1, <1>2, <1>3 DEF TokenPair
<1>6. p \in Seq(Tokens) /\ Len(p) = 2 /\ p[1] = a /\ p[2] = r BY <1>4, <1>5
<1>7. token' = token \o p BY <1>1
<1>s. token \in Seq(Tokens) BY DEF SessionShape
<1>8. /\ token' \in Seq(Tokens) /\ Len(token') = Len(token) + 2 /\ Len(token) \in Nat
      /\ \A i \in 1..Len(token) + 2 :
            token'[i] = IF i <= Len(token) THEN token[i] ELSE p[i - Len(token)]
  <2>1. /\ token \o p \in Seq(Tokens) /\ Len(token \o p) = Len(token) + 2
        /\ \A i \in 1..Len(token) + 2 :
              (token \o p)[i] = IF i <= Len(token) THEN token[i] ELSE p[i - Len(token)]
    <3>0. p \in Seq(Tokens) /\ Len(p) = 2 BY <1>6
    <3>1. /\ token \o p \in Seq(Tokens) /\ Len(token \o p) = Len(token) + Len(p)
          /\ \A i \in 1..Len(token) + Len(p) :
                (token \o p)[i] = IF i <= Len(token) THEN token[i] ELSE p[i - Len(token)]
      BY <1>s, <3>0, ConcatProperties
    <3> QED BY <3>0, <3>1
  <2> QED BY <1>s, <2>1, <1>7
<1>9. DOMAIN token = 1..Len(token) /\ DOMAIN token' = 1..Len(token')
  BY <1>s, <1>8
<1>10. \A i \in 1..Len(token) : token'[i] = token[i] BY <1>8
<1>11. \A i \in DOMAIN token' : i \in DOMAIN token \/ token'[i] \in {a, r}
  <2> SUFFICES ASSUME NEW i \in DOMAIN token', i \notin DOMAIN token PROVE token'[i] \in {a, r}
    OBVIOUS
  <2>1. i = Len(token) + 1 \/ i = Len(token) + 2 BY <1>8, <1>9
  <2>2. token'[Len(token) + 1] = p[1] /\ token'[Len(token) + 2] = p[2] BY <1>8
  <2> QED BY <2>1, <2>2, <1>6
<1> QED BY <1>4, <1>8, <1>9, <1>10, <1>11 DEF SameTokens

(* A step that ends no session; the tokens it issues must be in order.     *)
LEMMA SessionKept ==
    ASSUME SessionInv, SameTokens, SameLogouts, second' \in Nat, second <= second',
           \A i \in DOMAIN token' : i \in DOMAIN token \/ TokenEnds(token[i])'
    PROVE  /\ \A i \in DOMAIN token' : TokenEnds(token[i])'
           /\ \A i : StandsOn(i) => StandsOn(i)'
<1>1. ASSUME NEW i \in DOMAIN token PROVE TokenEnds(token[i])'
  <2>1. TokenEnds(token[i]) BY <1>1 DEF SessionInv
  <2>2. token[i].of \in Customers /\ token[i].iat \in Nat BY <1>1, TokenHas DEF SessionInv
  <2>3. /\ token'[i].of = token[i].of /\ token'[i].kind = token[i].kind
        /\ token'[i].iat = token[i].iat /\ token'[i].logouts = token[i].logouts
    BY <1>1 DEF SameTokens
  <2>4. second \in Nat BY DEF SessionInv, SessionShape
  <2> QED BY <2>1, <2>2, <2>3, <2>4 DEF TokenEnds, SameLogouts
<1>2. ASSUME NEW i, StandsOn(i) PROVE StandsOn(i)'
  <2>1. i \in DOMAIN token /\ token[i].of \in Customers
    BY <1>2, TokenHas DEF StandsOn, SessionInv
  <2> QED BY <1>2, <2>1 DEF StandsOn, SameTokens, SameLogouts
<1> QED BY <1>1, <1>2

(* The other visitors stand where they stood.                              *)
LEMMA OthersStand ==
    ASSUME SessionInv, NEW w \in Visitors, \A i : StandsOn(i) => StandsOn(i)',
           accountPc'[w] = accountPc[w], accountLoc'[w] = accountLoc[w]
    PROVE  /\ accountPc'[w] \in Rotation => StandsOn(accountLoc[w].token)'
           /\ accountPc'[w] \in Spending => accountLoc'[w].user \in Customers
<1>1. ASSUME accountPc'[w] \in Rotation PROVE StandsOn(accountLoc[w].token)'
  <2>1. PICK i : i = accountLoc[w].token OBVIOUS
  <2>2. StandsOn(i)' BY <1>1, <2>1 DEF SessionInv
  <2> QED BY <2>1, <2>2 DEF StandsOn
<1>2. accountPc'[w] \in Spending => accountLoc'[w].user \in Customers BY DEF SessionInv
<1> QED BY <1>1, <1>2

(* The walk of the visitor closes the step.                                *)
LEMMA SessionWalks ==
    ASSUME SessionInv, NEW v \in Visitors, NEW label, NEW held,
           VisitGo(v, label, held), SameTokens, SameLogouts, UNCHANGED second,
           \A i \in DOMAIN token' : i \in DOMAIN token \/ TokenEnds(token[i])',
           label \in Rotation => StandsOn(held.token) \/ StandsOn(held.token)',
           label \in Spending => held.user \in Customers
    PROVE  SessionInv'
<1>1. second' \in Nat /\ second <= second' BY DEF SessionInv, SessionShape
<1>2. /\ \A i \in DOMAIN token' : TokenEnds(token[i])'
      /\ \A i : StandsOn(i) => StandsOn(i)'
  BY <1>1, SessionKept
<1>3. /\ accountPc'[v] = label /\ accountLoc'[v] = held
      /\ \A w \in Visitors : w # v => accountPc'[w] = accountPc[w] /\ accountLoc'[w] = accountLoc[w]
      /\ DOMAIN accountPc' = Visitors /\ DOMAIN accountLoc' = Visitors
  BY VisitWalk DEF SessionInv
<1>4. SessionShape' BY <1>1, <1>3 DEF SessionInv, SessionShape, SameTokens, SameLogouts
<1>5. PICK i : i = held.token OBVIOUS
<1>6. label \in Rotation => StandsOn(i)' BY <1>2, <1>5 DEF StandsOn
<1>7. label \in Rotation => StandsOn(accountLoc[v].token)'
  BY <1>3, <1>5, <1>6 DEF StandsOn
<1>8. accountPc'[v] \in Spending => accountLoc'[v].user \in Customers BY <1>3
<1>9. ASSUME NEW w \in Visitors
      PROVE  /\ accountPc'[w] \in Rotation => StandsOn(accountLoc[w].token)'
             /\ accountPc'[w] \in Spending => accountLoc'[w].user \in Customers
  <2>1. CASE w = v BY <1>3, <1>7, <1>8, <2>1
  <2>2. CASE w # v BY <1>2, <1>3, <2>2, OthersStand
  <2> QED BY <2>1, <2>2
<1> QED BY <1>2, <1>4, <1>9 DEF SessionInv

LEMMA TokensStay ==
    ASSUME SessionShape, UNCHANGED token
    PROVE  SameTokens /\ \A i \in DOMAIN token' : i \in DOMAIN token
BY DEF SessionShape, SameTokens

LEMMA LogoutsStay ==
    ASSUME SessionShape, UNCHANGED account
    PROVE  SameLogouts
BY DEF SessionShape, SameLogouts

(* Codes, sign-up, address book: sessions are not concerned.               *)
LEMMA PlainVisits ==
    ASSUME SessionInv, NEW v \in Visitors,
           ReadSignup(v) \/ CreateAccount(v) \/ ReadForCode(v) \/ DropCodes(v) \/ CreateCode(v)
             \/ ReadReset(v) \/ WritePassword(v) \/ ReadAddresses(v) \/ WriteAddresses(v)
    PROVE  SessionInv'
<1>0. DOMAIN account = Customers /\ \A u \in Customers : DOMAIN account[u] = DOMAIN NoAccount
  BY DEF SessionInv, SessionShape
<1>1. SameLogouts
  <2>1. CASE CreateAccount(v)
    <3>1. \E x : account' = [account EXCEPT ![x].live = TRUE] BY <2>1 DEF CreateAccount
    <3> QED BY <1>0, <3>1, VisitFields DEF SameLogouts
  <2>2. CASE WritePassword(v)
    <3>1. \E x : account' = [account EXCEPT ![x].passwordChangedAt = second]
      BY <2>2 DEF WritePassword
    <3> QED BY <1>0, <3>1, VisitFields DEF SameLogouts
  <2>3. CASE WriteAddresses(v)
    <3>1. \E x, book : account' = [account EXCEPT ![x].addresses = book] BY <2>3 DEF WriteAddresses
    <3> QED BY <1>0, <3>1, VisitFields DEF SameLogouts
  <2>4. CASE ReadSignup(v) \/ ReadForCode(v) \/ DropCodes(v) \/ CreateCode(v) \/ ReadReset(v)
               \/ ReadAddresses(v)
    <3>1. UNCHANGED account
      BY <2>4 DEF ReadSignup, ReadForCode, DropCodes, CreateCode, ReadReset, ReadAddresses
    <3> QED BY <3>1, LogoutsStay DEF SessionInv
  <2> QED BY <2>1, <2>2, <2>3, <2>4
<1>2. UNCHANGED <<token, second>>
  BY DEF ReadSignup, CreateAccount, ReadForCode, DropCodes, CreateCode, ReadReset, WritePassword,
         ReadAddresses, WriteAddresses
<1>3. PICK label, held : VisitGo(v, label, held) /\ label \notin Rotation \cup Spending
  <2>1. CASE ReadSignup(v) BY <2>1 DEF ReadSignup, Rotation, Spending
  <2>2. CASE CreateAccount(v) BY <2>2 DEF CreateAccount, VisitDone, Rotation, Spending
  <2>3. CASE ReadForCode(v) BY <2>3 DEF ReadForCode, Rotation, Spending
  <2>4. CASE DropCodes(v)
    <3>1. VisitGo(v, IF accountPc[v] = "dropCodes" THEN "createCode" ELSE "revokeReset", accountLoc[v])
      BY <2>4 DEF DropCodes
    <3>2. (IF accountPc[v] = "dropCodes" THEN "createCode" ELSE "revokeReset") \notin Rotation \cup Spending
      BY DEF Rotation, Spending
    <3> QED BY <3>1, <3>2
  <2>5. CASE CreateCode(v) BY <2>5 DEF CreateCode, VisitDone, Rotation, Spending
  <2>6. CASE ReadReset(v) BY <2>6 DEF ReadReset, Rotation, Spending
  <2>7. CASE WritePassword(v) BY <2>7 DEF WritePassword, Rotation, Spending
  <2>8. CASE ReadAddresses(v)
    <3>1. PICK held : VisitGo(v, "writeAddresses", held) BY <2>8 DEF ReadAddresses
    <3> QED BY <3>1 DEF Rotation, Spending
  <2>9. CASE WriteAddresses(v) BY <2>9 DEF WriteAddresses, VisitDone, Rotation, Spending
  <2> QED BY <2>1, <2>2, <2>3, <2>4, <2>5, <2>6, <2>7, <2>8, <2>9
<1>4. SameTokens /\ \A i \in DOMAIN token' : i \in DOMAIN token BY <1>2, TokensStay DEF SessionInv
<1> QED BY <1>1, <1>2, <1>3, <1>4, SessionWalks

LEMMA CodeVisits ==
    ASSUME SessionInv, NEW v \in Visitors,
           ReadCode(v) \/ VerifyEmail(v) \/ SpendCode(v)
    PROVE  SessionInv'
<1>0. DOMAIN account = Customers /\ \A u \in Customers : DOMAIN account[u] = DOMAIN NoAccount
  BY DEF SessionInv, SessionShape
<1>1. SameLogouts
  <2>1. CASE VerifyEmail(v)
    <3>1. \E x : account' = [account EXCEPT ![x].verified = TRUE] BY <2>1 DEF VerifyEmail
    <3> QED BY <1>0, <3>1, VisitFields DEF SameLogouts
  <2>2. CASE ReadCode(v) \/ SpendCode(v)
    <3>1. UNCHANGED account BY <2>2 DEF ReadCode, SpendCode
    <3> QED BY <3>1, LogoutsStay DEF SessionInv
  <2> QED BY <2>1, <2>2
<1>2. UNCHANGED <<token, second>> BY DEF ReadCode, VerifyEmail, SpendCode
<1>3. PICK label, held : /\ VisitGo(v, label, held) /\ label \notin Rotation
                         /\ label \in Spending => held.user \in Customers
  <2>1. CASE ReadCode(v)
    <3>1. PICK u, type, id :
             /\ u \in Customers /\ type \in OtpType
             /\ VisitGo(v, IF type = "CONFIRMATION" THEN "verify" ELSE "spendCode",
                        [Visit(u, type) EXCEPT !.id = id])
      BY <2>1 DEF ReadCode
    <3>2. PICK held : held = [Visit(u, type) EXCEPT !.id = id] OBVIOUS
    <3>3. held.user = u BY <3>2 DEF Visit, NoVisit
    <3>4. (IF type = "CONFIRMATION" THEN "verify" ELSE "spendCode") \notin Rotation BY DEF Rotation
    <3> QED BY <3>1, <3>2, <3>3, <3>4
  <2>2. CASE VerifyEmail(v) BY <2>2 DEF VerifyEmail, SessionInv, Rotation, Spending
  <2>3. CASE SpendCode(v)
    <3>1. accountLoc[v].user \in Customers BY <2>3 DEF SpendCode, SessionInv, Spending
    <3>2. VisitDone(v) \/ VisitGo(v, "issueReset", accountLoc[v]) BY <2>3 DEF SpendCode
    <3> QED BY <3>1, <3>2 DEF VisitDone, Rotation, Spending
  <2> QED BY <2>1, <2>2, <2>3
<1>4. SameTokens /\ \A i \in DOMAIN token' : i \in DOMAIN token BY <1>2, TokensStay DEF SessionInv
<1> QED BY <1>1, <1>2, <1>3, <1>4, SessionWalks

LEMMA ResetIssued ==
    ASSUME SessionInv, NEW v \in Visitors, IssueReset(v)
    PROVE  SessionInv'
<1>1. PICK u : u = accountLoc[v].user OBVIOUS
<1>2. u \in Customers BY <1>1 DEF IssueReset, SessionInv, Spending
<1>3. account[u].logouts \in Nat /\ second \in Nat BY <1>2 DEF SessionInv, SessionShape
<1>4. PICK t : t = Token(u, "reset", account[u].logouts) OBVIOUS
<1>5. t = [of |-> u, kind |-> "reset", iat |-> second, revoked |-> -1, logouts |-> account[u].logouts]
  BY <1>4 DEF Token, Never
<1>6. t \in Tokens /\ t.kind = "reset" /\ t.iat = second BY <1>2, <1>3, <1>5 DEF Tokens
<1>7. token' = Append(token, t) /\ UNCHANGED <<account, second>> /\ VisitGo(v, "idle", NoVisit)
  BY <1>1, <1>4 DEF IssueReset, VisitDone
<1>8. SameTokens /\ \A i \in DOMAIN token' : i \in DOMAIN token \/ token'[i] = t
  BY <1>6, <1>7, AppendKeeps DEF SessionInv
<1>9. \A i \in DOMAIN token' : i \in DOMAIN token \/ TokenEnds(token[i])'
  BY <1>3, <1>6, <1>7, <1>8 DEF TokenEnds
<1>10. SameLogouts BY <1>7, LogoutsStay DEF SessionInv
<1> QED BY <1>7, <1>8, <1>9, <1>10, SessionWalks DEF Rotation, Spending

(* Revocations.                                                            *)
LEMMA Revocations ==
    ASSUME SessionInv, NEW v \in Visitors,
           RevokeReset(v) \/ RevokeOld(v) \/ RevokeAccess(v) \/ RevokeRefresh(v)
    PROVE  SessionInv'
<1>1. PICK i : token' = Revoke(i) BY DEF RevokeReset, RevokeOld, RevokeAccess, RevokeRefresh
<1>2. SameTokens /\ \A j \in DOMAIN token' : j \in DOMAIN token BY <1>1, RevokeKeeps DEF SessionInv
<1>3. UNCHANGED <<account, second>> BY DEF RevokeReset, RevokeOld, RevokeAccess, RevokeRefresh
<1>4. SameLogouts BY <1>3, LogoutsStay DEF SessionInv
<1>5. PICK label, held : /\ VisitGo(v, label, held)
                         /\ label \notin Spending
                         /\ label \in Rotation => StandsOn(held.token)
  <2>1. CASE RevokeReset(v) BY <2>1 DEF RevokeReset, VisitDone, Rotation, Spending
  <2>2. CASE RevokeOld(v)
    <3>1. accountPc[v] \in Rotation BY <2>2 DEF RevokeOld, Rotation
    <3>2. StandsOn(accountLoc[v].token) BY <3>1 DEF SessionInv
    <3> QED BY <2>2, <3>2 DEF RevokeOld, Spending
  <2>3. CASE RevokeAccess(v)
    <3>1. PICK label : /\ label = IF accountLoc[v].other = 0 THEN "stampLogout" ELSE "revokeRefresh"
                       /\ VisitGo(v, label, accountLoc[v])
      BY <2>3 DEF RevokeAccess
    <3>2. label \in {"stampLogout", "revokeRefresh"} BY <3>1
    <3> QED BY <3>1, <3>2 DEF Rotation, Spending
  <2>4. CASE RevokeRefresh(v) BY <2>4 DEF RevokeRefresh, Rotation, Spending
  <2> QED BY <2>1, <2>2, <2>3, <2>4
<1> QED BY <1>2, <1>3, <1>4, <1>5, SessionWalks

LEMMA LoginOpens ==
    ASSUME SessionInv, NEW v \in Visitors, Login(v)
    PROVE  SessionInv'
<1>1. PICK u \in Customers : token' = token \o TokenPair(u, account[u].logouts) BY DEF Login
<1>2. UNCHANGED <<account, second, accountPc, accountLoc>> BY DEF Login
<1>3. PICK n : n = account[u].logouts OBVIOUS
<1>4. n \in Nat /\ second \in Nat BY <1>3 DEF SessionInv, SessionShape
<1>5. token' = token \o TokenPair(u, n) BY <1>1, <1>3
<1>6. /\ SameTokens
      /\ \A i \in DOMAIN token' : \/ i \in DOMAIN token
                                  \/ /\ token'[i].of = u /\ token'[i].iat = second
                                     /\ token'[i].logouts = n
  BY <1>4, <1>5, PairKeeps DEF SessionInv
<1>7. \A i \in DOMAIN token' : i \in DOMAIN token \/ TokenEnds(token[i])'
  BY <1>2, <1>3, <1>4, <1>6 DEF TokenEnds
<1>8. SameLogouts BY <1>2, LogoutsStay DEF SessionInv
<1>9. /\ \A i \in DOMAIN token' : TokenEnds(token[i])'
      /\ \A i : StandsOn(i) => StandsOn(i)'
  BY <1>2, <1>4, <1>6, <1>7, <1>8, SessionKept
<1>10. SessionShape' BY <1>2, <1>6, <1>8 DEF SessionInv, SessionShape, SameTokens, SameLogouts
<1>11. ASSUME NEW w \in Visitors
       PROVE  /\ accountPc'[w] \in Rotation => StandsOn(accountLoc[w].token)'
              /\ accountPc'[w] \in Spending => accountLoc'[w].user \in Customers
  <2>1. accountPc'[w] = accountPc[w] /\ accountLoc'[w] = accountLoc[w] BY <1>2
  <2> QED BY <1>9, <2>1, OthersStand
<1> QED BY <1>9, <1>10, <1>11 DEF SessionInv

(* Admission: what the guard lets through is of the latest session.        *)
LEMMA AdmittedStands ==
    ASSUME SessionInv, NEW i \in DOMAIN token, token[i].kind # "reset", Admitted(i)
    PROVE  StandsOn(i)
<1>1. token[i].iat > account[token[i].of].tokensRevokedAt BY DEF Admitted
<1>2. token[i].of \in Customers /\ token[i].iat \in Nat BY TokenHas DEF SessionInv
<1>3. account[token[i].of].tokensRevokedAt \in Int BY <1>2 DEF SessionInv, SessionShape
<1>4. TokenEnds(token[i]) BY DEF SessionInv
<1> QED BY <1>1, <1>2, <1>3, <1>4 DEF TokenEnds, StandsOn

LEMMA Admissions ==
    ASSUME SessionInv, NEW v \in Visitors,
           AdmitRefresh(v) \/ ReadRotation(v) \/ AdmitLogout(v)
    PROVE  SessionInv'
<1>1. UNCHANGED <<account, token, second>> BY DEF AdmitRefresh, ReadRotation, AdmitLogout
<1>2. SameTokens /\ \A j \in DOMAIN token' : j \in DOMAIN token BY <1>1, TokensStay DEF SessionInv
<1>3. SameLogouts BY <1>1, LogoutsStay DEF SessionInv
<1>4. PICK label, held : /\ VisitGo(v, label, held)
                         /\ label \notin Spending
                         /\ label \in Rotation => StandsOn(held.token)
  <2>1. CASE AdmitRefresh(v)
    <3>1. PICK i \in Presented("refresh") :
             Admitted(i) /\ VisitGo(v, "rotate", [Visit(token[i].of, "") EXCEPT !.token = i])
      BY <2>1 DEF AdmitRefresh
    <3>2. i \in DOMAIN token /\ token[i].kind # "reset" BY DEF Presented
    <3>3. StandsOn(i) BY <3>1, <3>2, AdmittedStands
    <3>4. PICK held : held = [Visit(token[i].of, "") EXCEPT !.token = i] OBVIOUS
    <3>5. held.token = i BY <3>4 DEF Visit, NoVisit
    <3>6. VisitGo(v, "rotate", held) BY <3>1, <3>4
    <3>7. StandsOn(held.token) BY <3>3, <3>5
    <3>8. "rotate" \notin Spending BY DEF Spending
    <3> QED BY <3>6, <3>7, <3>8
  <2>2. CASE ReadRotation(v)
    <3>1. accountPc[v] \in Rotation BY <2>2 DEF ReadRotation, Rotation
    <3>2. StandsOn(accountLoc[v].token) BY <3>1 DEF SessionInv
    <3>3. \/ VisitGo(v, "revokeOld", accountLoc[v]) \/ VisitGo(v, "issuePair", accountLoc[v])
          \/ VisitGo(v, "idle", NoVisit)
      BY <2>2 DEF ReadRotation, VisitDone
    <3>4. "idle" \notin Rotation \cup Spending /\ {"revokeOld", "issuePair"} \cap Spending = {}
      BY DEF Rotation, Spending
    <3>5. CASE VisitGo(v, "idle", NoVisit) BY <3>4, <3>5
    <3>6. CASE VisitGo(v, "revokeOld", accountLoc[v]) BY <3>2, <3>4, <3>6
    <3>7. CASE VisitGo(v, "issuePair", accountLoc[v]) BY <3>2, <3>4, <3>7
    <3> QED BY <3>3, <3>5, <3>6, <3>7
  <2>3. CASE AdmitLogout(v)
    <3>1. PICK held : VisitGo(v, "revokeAccess", held) BY <2>3 DEF AdmitLogout
    <3> QED BY <3>1 DEF Rotation, Spending
  <2> QED BY <2>1, <2>2, <2>3
<1> QED BY <1>1, <1>2, <1>3, <1>4, SessionWalks

LEMMA PairIssued ==
    ASSUME SessionInv, NEW v \in Visitors, IssuePair(v)
    PROVE  SessionInv'
<1>1. PICK i : i = accountLoc[v].token OBVIOUS
<1>2. StandsOn(i) BY <1>1 DEF IssuePair, SessionInv, Rotation
<1>3. PICK t : t = token[i] OBVIOUS
<1>4. t.of \in Customers /\ t.logouts \in Nat /\ t.logouts = account[t.of].logouts
  BY <1>2, <1>3, TokenHas DEF StandsOn, SessionInv
<1>5. /\ token' = token \o TokenPair(t.of, t.logouts)
      /\ UNCHANGED <<account, second>> /\ VisitGo(v, "idle", NoVisit)
  BY <1>1, <1>3 DEF IssuePair, VisitDone
<1>6. /\ SameTokens
      /\ \A j \in DOMAIN token' : \/ j \in DOMAIN token
                                  \/ /\ token'[j].of = t.of /\ token'[j].iat = second
                                     /\ token'[j].logouts = t.logouts
  BY <1>4, <1>5, PairKeeps DEF SessionInv
<1>0. second \in Nat BY DEF SessionInv, SessionShape
<1>7. \A j \in DOMAIN token' : j \in DOMAIN token \/ TokenEnds(token[j])'
  BY <1>0, <1>4, <1>5, <1>6 DEF TokenEnds
<1>8. SameLogouts BY <1>5, LogoutsStay DEF SessionInv
<1> QED BY <1>5, <1>6, <1>7, <1>8, SessionWalks DEF Rotation, Spending

(* The logout ends every session so far of its account.                    *)
LEMMA LogoutEnds ==
    ASSUME SessionInv, LogoutsApart, NEW v \in Visitors, StampLogout(v)
    PROVE  SessionInv'
<1>1. PICK x : x = accountLoc[v].user OBVIOUS
<1>2. /\ account' = [account EXCEPT ![x].logouts = @ + 1, ![x].tokensRevokedAt = second]
      /\ UNCHANGED <<token, second>> /\ VisitGo(v, "idle", NoVisit)
  BY <1>1 DEF StampLogout, VisitDone
<1>0. second \in Nat /\ DOMAIN account = Customers BY DEF SessionInv, SessionShape
<1>3. /\ DOMAIN account' = Customers
      /\ \A u \in Customers : /\ DOMAIN account'[u] = DOMAIN NoAccount
                              /\ u # x => account'[u] = account[u]
                              /\ u = x => /\ account'[u].tokensRevokedAt = second
                                          /\ account'[u].logouts = account[u].logouts + 1
  BY <1>0, <1>2, VisitFields DEF SessionInv, SessionShape
<1>4. /\ accountPc'[v] = "idle"
      /\ \A w \in Visitors : w # v => accountPc'[w] = accountPc[w] /\ accountLoc'[w] = accountLoc[w]
      /\ DOMAIN accountPc' = Visitors /\ DOMAIN accountLoc' = Visitors
  BY <1>2, VisitWalk DEF SessionInv
<1>5. SessionShape' BY <1>0, <1>2, <1>3, <1>4 DEF SessionInv, SessionShape
<1>6. ASSUME NEW i \in DOMAIN token PROVE TokenEnds(token[i])'
  <2>1. PICK t : t = token[i] OBVIOUS
  <2>2. TokenEnds(t) /\ t.of \in Customers /\ t.iat \in Nat
    BY <2>1, TokenHas DEF SessionInv
  <2>3. t = token'[i] BY <1>2, <2>1
  <2>4. TokenEnds(t)'
    <3>1. CASE t.of = x BY <3>1, <2>2, <1>2, <1>3 DEF TokenEnds
    <3>2. CASE t.of # x BY <3>2, <2>2, <1>2, <1>3 DEF TokenEnds
    <3> QED BY <3>1, <3>2
  <2> QED BY <2>3, <2>4 DEF TokenEnds
<1>7. ASSUME NEW w \in Visitors
      PROVE  /\ accountPc'[w] \in Rotation => StandsOn(accountLoc[w].token)'
             /\ accountPc'[w] \in Spending => accountLoc'[w].user \in Customers
  <2>1. CASE w = v BY <1>4, <2>1 DEF Rotation, Spending
  <2>2. CASE w # v
    <3>1. accountPc'[w] = accountPc[w] /\ accountLoc'[w] = accountLoc[w] BY <1>4, <2>2
    <3>2. ASSUME accountPc[w] \in Rotation PROVE StandsOn(accountLoc[w].token)'
      <4>1. PICK i : i = accountLoc[w].token OBVIOUS
      <4>2. StandsOn(i) BY <3>2, <4>1 DEF SessionInv
      <4>3. accountPc[v] = "stampLogout" BY DEF StampLogout
      <4>4. token[i].of # x BY <1>1, <3>2, <4>1, <4>3 DEF LogoutsApart
      <4>5. i \in DOMAIN token /\ token[i].of \in Customers
        BY <4>2, TokenHas DEF StandsOn, SessionInv
      <4>6. StandsOn(i)' BY <1>2, <1>3, <4>2, <4>4, <4>5 DEF StandsOn
      <4> QED BY <3>1, <4>1, <4>6 DEF StandsOn
    <3>3. accountPc[w] \in Spending => accountLoc[w].user \in Customers BY DEF SessionInv
    <3> QED BY <3>1, <3>2, <3>3
  <2> QED BY <2>1, <2>2
<1> QED BY <1>2, <1>5, <1>6, <1>7 DEF SessionInv

LEMMA StandingStays ==
    ASSUME SessionInv, SameTokens, SameLogouts, second' \in Nat, second <= second',
           \A i \in DOMAIN token' : i \in DOMAIN token, UNCHANGED <<accountPc, accountLoc>>
    PROVE  SessionInv'
<1>1. /\ \A i \in DOMAIN token' : TokenEnds(token[i])'
      /\ \A i : StandsOn(i) => StandsOn(i)'
  BY SessionKept
<1>2. SessionShape' BY DEF SessionInv, SessionShape, SameTokens, SameLogouts
<1>3. ASSUME NEW v \in Visitors, accountPc[v] \in Rotation PROVE StandsOn(accountLoc[v].token)'
  <2>1. PICK i : i = accountLoc[v].token OBVIOUS
  <2>2. StandsOn(i)' BY <1>1, <1>3, <2>1 DEF SessionInv
  <2> QED BY <2>1, <2>2 DEF StandsOn
<1> QED BY <1>1, <1>2, <1>3 DEF SessionInv

(* No session opened before the last logout of its account is admitted,    *)
(* however often its tokens were rotated and on however many devices:      *)
(* proved for any grace time and number of accounts, tokens and requests   *)
(* at a time, when no rotation of a token overlaps a logout of its account *)
(* (it may issue a pair in the name of the ended session).                 *)
THEOREM SessionsCorrect == SpecAccounts /\ []LogoutsApart => []SessionsEnd
<1>1. InitAccounts => SessionInv
  <2> SUFFICES ASSUME InitAccounts PROVE SessionInv OBVIOUS
  <2>1. token = <<>> /\ second = 0 BY DEF InitAccounts
  <2>2. token \in Seq(Tokens) /\ DOMAIN token = {} BY <2>1
  <2>3. DOMAIN account = Customers /\ \A u \in Customers : account[u] = NoAccount BY DEF InitAccounts
  <2>4. NoAccount.logouts = 0 /\ NoAccount.tokensRevokedAt = -1 BY DEF NoAccount, Never
  <2>5. SessionShape BY <2>1, <2>2, <2>3, <2>4 DEF SessionShape, InitAccounts
  <2> QED BY <2>2, <2>5 DEF SessionInv, InitAccounts, Rotation, Spending
<1>2. SessionInv /\ LogoutsApart /\ [NextAccounts]_accountVars => SessionInv'
  <2> SUFFICES ASSUME SessionInv, LogoutsApart, [NextAccounts]_accountVars PROVE SessionInv' OBVIOUS
  <2>1. ASSUME NEW v \in Visitors, UpdateStatus(v) PROVE SessionInv'
    <3>1. SameLogouts
      <4>1. PICK u, b : u \in Customers /\ account' = [account EXCEPT ![u].active = b]
        BY <2>1 DEF UpdateStatus
      <4> QED BY <4>1, VisitFields DEF SessionInv, SessionShape, SameLogouts
    <3>2. UNCHANGED <<token, second, accountPc, accountLoc>> BY <2>1 DEF UpdateStatus
    <3>3. SameTokens /\ \A j \in DOMAIN token' : j \in DOMAIN token
      BY <3>2, TokensStay DEF SessionInv
    <3>4. second' \in Nat /\ second <= second' BY <3>2 DEF SessionInv, SessionShape
    <3> QED BY <3>1, <3>2, <3>3, <3>4, StandingStays
  <2>2. CASE NextSecond \/ UNCHANGED accountVars
    <3>1. UNCHANGED <<account, token, accountPc, accountLoc>> /\ second' \in {second, second + 1}
      BY <2>2 DEF NextSecond, accountVars
    <3>2. SameTokens /\ \A j \in DOMAIN token' : j \in DOMAIN token
      BY <3>1, TokensStay DEF SessionInv
    <3>3. SameLogouts BY <3>1, LogoutsStay DEF SessionInv
    <3>4. second' \in Nat /\ second <= second' BY <3>1 DEF SessionInv, SessionShape
    <3> QED BY <3>1, <3>2, <3>3, <3>4, StandingStays
  <2>3. ASSUME NEW v \in Visitors, CodeStep(v) PROVE SessionInv'
    BY <2>3, PlainVisits, CodeVisits, ResetIssued, Revocations DEF CodeStep
  <2>4. ASSUME NEW v \in Visitors, SessionStep(v) PROVE SessionInv'
    BY <2>1, <2>4, LoginOpens, Admissions, Revocations, PairIssued, LogoutEnds DEF SessionStep
  <2>5. ASSUME NEW v \in Visitors, AddressStep(v) PROVE SessionInv'
    BY <2>5, PlainVisits DEF AddressStep
  <2> QED BY <2>2, <2>3, <2>4, <2>5 DEF NextAccounts
<1>3. SessionInv => SessionsEnd
  BY AdmittedStands DEF SessionsEnd, StandsOn
<1> QED BY <1>1, <1>2, <1>3, PTL DEF SpecAccounts

-------------------------------------------------------------------------------
(* The address book.                                                       *)
Addresses == [id : AddressIds, isDefault : BOOLEAN]

GoodBook(book) ==
    /\ book \in Seq(Addresses)
    /\ \A m, n \in 1..Len(book) : m # n => /\ book[m].id # book[n].id
                                          /\ ~(book[m].isDefault /\ book[n].isDefault)

LEMMA BookHas ==
    ASSUME NEW book \in Seq(Addresses), NEW n \in 1..Len(book)
    PROVE  book[n] \in Addresses /\ book[n].id \in AddressIds /\ book[n].isDefault \in BOOLEAN
<1>1. book[n] \in Addresses OBVIOUS
<1>2. PICK a : a = book[n] OBVIOUS
<1>3. a.id \in AddressIds /\ a.isDefault \in BOOLEAN BY <1>1, <1>2 DEF Addresses
<1> QED BY <1>1, <1>2, <1>3

(* A book whose rows keep their ids, each of them marked as told.          *)
LEMMA Remarked ==
    ASSUME NEW book \in Seq(Addresses), NEW mark \in [1..Len(book) -> BOOLEAN],
           \A m, n \in 1..Len(book) : m # n => /\ book[m].id # book[n].id
                                              /\ ~(mark[m] /\ mark[n])
    PROVE  LET new == [n \in 1..Len(book) |-> [book[n] EXCEPT !.isDefault = mark[n]]]
           IN  GoodBook(new)
<1> DEFINE new == [n \in 1..Len(book) |-> [book[n] EXCEPT !.isDefault = mark[n]]]
<1>0. Len(book) \in Nat OBVIOUS
<1>1. ASSUME NEW n \in 1..Len(book)
      PROVE  new[n] \in Addresses /\ new[n].id = book[n].id /\ new[n].isDefault = mark[n]
  <2>1. PICK a : a = book[n] OBVIOUS
  <2>2. PICK b : b = mark[n] OBVIOUS
  <2>3. PICK c : c = [a EXCEPT !.isDefault = b] OBVIOUS
  <2>4. a \in Addresses /\ b \in BOOLEAN BY <2>1, <2>2, BookHas
  <2>5. c \in Addresses /\ c.id = a.id /\ c.isDefault = b BY <2>3, <2>4 DEF Addresses
  <2>6. new[n] = c BY <2>1, <2>2, <2>3
  <2> QED BY <2>1, <2>2, <2>5, <2>6
<1>2. DOMAIN new = 1..Len(book) OBVIOUS
<1> HIDE DEF new
<1>3. new \in [1..Len(book) -> Addresses]
  <2>1. new = [n \in 1..Len(book) |-> new[n]] BY DEF new
  <2> QED BY <1>1, <2>1
<1>4. new \in Seq(Addresses) /\ Len(new) = Len(book) BY <1>0, <1>3
<1>5. \A m, n \in 1..Len(new) : m # n => /\ new[m].id # new[n].id
                                         /\ ~(new[m].isDefault /\ new[n].isDefault)
  BY <1>1, <1>4
<1> QED BY <1>4, <1>5 DEF GoodBook, new

(* One address becomes the default one.                                    *)
LEMMA OnlyDefaultGood ==
    ASSUME NEW book, GoodBook(book), NEW id
    PROVE  /\ GoodBook(OnlyDefault(book, id)) /\ Len(OnlyDefault(book, id)) = Len(book)
           /\ \A n \in 1..Len(book) : /\ OnlyDefault(book, id)[n].id = book[n].id
                                      /\ OnlyDefault(book, id)[n].isDefault <=> book[n].id = id
<1>1. book \in Seq(Addresses) /\ DOMAIN book = 1..Len(book) /\ Len(book) \in Nat BY DEF GoodBook
<1> DEFINE mark == [n \in 1..Len(book) |-> book[n].id = id]
           new  == [n \in 1..Len(book) |-> [book[n] EXCEPT !.isDefault = mark[n]]]
<1>2. mark \in [1..Len(book) -> BOOLEAN] OBVIOUS
<1>3. \A n \in 1..Len(book) : mark[n] <=> book[n].id = id OBVIOUS
<1>4. OnlyDefault(book, id) = new BY <1>1 DEF OnlyDefault
<1>5. \A m, n \in 1..Len(book) : m # n => book[m].id # book[n].id /\ ~(mark[m] /\ mark[n])
  BY <1>3 DEF GoodBook
<1>6. \A n \in 1..Len(book) : book[n] \in Addresses BY <1>1, BookHas
<1>7. ASSUME NEW n \in 1..Len(book) PROVE new[n].id = book[n].id /\ new[n].isDefault = mark[n]
  <2>1. PICK a : a = book[n] OBVIOUS
  <2>2. PICK b : b = mark[n] OBVIOUS
  <2>3. PICK c : c = [a EXCEPT !.isDefault = b] OBVIOUS
  <2>4. c.id = a.id /\ c.isDefault = b BY <1>6, <2>1, <2>3 DEF Addresses
  <2>5. new[n] = c BY <2>1, <2>2, <2>3
  <2> QED BY <2>1, <2>2, <2>4, <2>5
<1> HIDE DEF mark
<1>8. GoodBook(new) BY <1>1, <1>2, <1>5, Remarked
<1>9. DOMAIN new = 1..Len(book) OBVIOUS
<1>10. Len(new) = Len(book) BY <1>1, <1>9
<1> HIDE DEF new
<1>11. \A n \in 1..Len(book) : new[n].isDefault <=> book[n].id = id BY <1>3, <1>7
<1> QED BY <1>4, <1>7, <1>8, <1>10, <1>11

(* One address stops being the default one.                                *)
LEMMA UpdatedGood ==
    ASSUME NEW book, GoodBook(book), NEW id, NEW d \in BOOLEAN
    PROVE  GoodBook(Updated(book, id, d))
<1>1. CASE d BY <1>1, OnlyDefaultGood DEF Updated
<1>2. CASE ~d
  <2>1. book \in Seq(Addresses) /\ DOMAIN book = 1..Len(book) BY DEF GoodBook
  <2> DEFINE mark == [n \in 1..Len(book) |-> book[n].id # id /\ book[n].isDefault]
             new  == [n \in 1..Len(book) |-> [book[n] EXCEPT !.isDefault = mark[n]]]
  <2>2. mark \in [1..Len(book) -> BOOLEAN] OBVIOUS
  <2>3. \A n \in 1..Len(book) : mark[n] <=> book[n].id # id /\ book[n].isDefault OBVIOUS
  <2>4. \A m, n \in 1..Len(book) : m # n => book[m].id # book[n].id /\ ~(mark[m] /\ mark[n])
    BY <2>3 DEF GoodBook
  <2>5. Updated(book, id, d) = new
    <3>1. Updated(book, id, d) =
             [n \in 1..Len(book) |-> IF book[n].id = id THEN [book[n] EXCEPT !.isDefault = FALSE]
                                     ELSE book[n]]
      BY <1>2, <2>1 DEF Updated
    <3>2. ASSUME NEW n \in 1..Len(book)
          PROVE  (IF book[n].id = id THEN [book[n] EXCEPT !.isDefault = FALSE] ELSE book[n])
                    = [book[n] EXCEPT !.isDefault = mark[n]]
      <4>1. PICK a : a = book[n] OBVIOUS
      <4>2. a \in Addresses /\ a.isDefault \in BOOLEAN BY <2>1, <4>1, BookHas
      <4>3. CASE a.id = id
        <5>1. mark[n] = FALSE BY <4>1, <4>3
        <5> QED BY <4>1, <4>3, <5>1
      <4>4. CASE a.id # id
        <5>1. mark[n] = a.isDefault BY <4>1, <4>2, <4>4
        <5>2. a = [a EXCEPT !.isDefault = a.isDefault] BY <4>2 DEF Addresses
        <5> QED BY <4>1, <4>4, <5>1, <5>2
      <4> QED BY <4>3, <4>4
    <3> HIDE DEF mark
    <3> QED BY <3>1, <3>2
  <2> HIDE DEF mark
  <2>6. GoodBook(new) BY <2>1, <2>2, <2>4, Remarked
  <2> QED BY <2>5, <2>6
<1> QED BY <1>1, <1>2

(* One more address.                                                       *)
LEMMA AppendGood ==
    ASSUME NEW book, GoodBook(book), NEW a \in Addresses,
           \A n \in 1..Len(book) : book[n].id # a.id /\ ~(book[n].isDefault /\ a.isDefault)
    PROVE  GoodBook(Append(book, a))
<1>1. book \in Seq(Addresses) /\ Len(book) \in Nat BY DEF GoodBook
<1>2. PICK new : new = Append(book, a) OBVIOUS
<1>3. /\ new \in Seq(Addresses) /\ Len(new) = Len(book) + 1 /\ new[Len(book) + 1] = a
      /\ \A n \in 1..Len(book) : new[n] = book[n]
  BY <1>1, <1>2, AppendProperties
<1>4. \A m, n \in 1..Len(book) : m # n => /\ new[m].id # new[n].id
                                          /\ ~(new[m].isDefault /\ new[n].isDefault)
  BY <1>3 DEF GoodBook
<1>5. \A n \in 1..Len(new) : n \in 1..Len(book) \/ n = Len(book) + 1 BY <1>1, <1>3
<1>6. ASSUME NEW m \in 1..Len(new), NEW n \in 1..Len(new), m # n
      PROVE  new[m].id # new[n].id /\ ~(new[m].isDefault /\ new[n].isDefault)
  <2>1. CASE m \in 1..Len(book) /\ n \in 1..Len(book) BY <1>4, <1>6, <2>1
  <2>2. CASE m \in 1..Len(book) /\ n = Len(book) + 1 BY <1>3, <2>2
  <2>3. CASE n \in 1..Len(book) /\ m = Len(book) + 1 BY <1>3, <2>3
  <2> QED BY <1>5, <1>6, <2>1, <2>2, <2>3
<1> QED BY <1>2, <1>3, <1>6 DEF GoodBook

LEMMA AddedGood ==
    ASSUME NEW book, GoodBook(book), NEW id \in AddressIds \ Ids(book), NEW d \in BOOLEAN
    PROVE  GoodBook(Added(book, id, d))
<1>1. book \in Seq(Addresses) /\ DOMAIN book = 1..Len(book) /\ Len(book) \in Nat BY DEF GoodBook
<1>2. \A n \in 1..Len(book) : book[n].id # id /\ book[n].id # 0
  BY <1>1, BookHas, AccountsAssumption DEF Ids
<1>3. CASE d \/ book = <<>>
  <2>1. PICK a : a = [id |-> id, isDefault |-> TRUE] OBVIOUS
  <2>2. a \in Addresses /\ a.id = id BY <2>1 DEF Addresses
  <2>3. PICK base : base = OnlyDefault(book, 0) OBVIOUS
  <2>4. /\ GoodBook(base) /\ Len(base) = Len(book)
        /\ \A n \in 1..Len(book) : base[n].id = book[n].id /\ (base[n].isDefault <=> book[n].id = 0)
    BY <2>3, OnlyDefaultGood
  <2>5. \A n \in 1..Len(base) : base[n].id # a.id /\ ~(base[n].isDefault /\ a.isDefault)
    BY <1>2, <2>2, <2>4
  <2>6. GoodBook(Append(base, a)) BY <2>2, <2>4, <2>5, AppendGood
  <2>7. Added(book, id, d) = Append(base, a)
    <3>1. (d \/ book = <<>>) = TRUE BY <1>3
    <3> QED BY <3>1, <2>1, <2>3 DEF Added
  <2> QED BY <2>6, <2>7
<1>4. CASE ~(d \/ book = <<>>)
  <2>1. PICK a : a = [id |-> id, isDefault |-> FALSE] OBVIOUS
  <2>2. a \in Addresses /\ a.id = id /\ ~a.isDefault BY <2>1 DEF Addresses
  <2>3. \A n \in 1..Len(book) : book[n].id # a.id /\ ~(book[n].isDefault /\ a.isDefault)
    BY <1>2, <2>2
  <2>4. GoodBook(Append(book, a)) BY <2>2, <2>3, AppendGood
  <2>5. Added(book, id, d) = Append(book, a)
    <3>1. (d \/ book = <<>>) = FALSE BY <1>4
    <3> QED BY <3>1, <2>1 DEF Added
  <2> QED BY <2>4, <2>5
<1> QED BY <1>3, <1>4

(* One address less.                                                       *)
LEMMA RemovedGood ==
    ASSUME NEW book, GoodBook(book), NEW k \in DOMAIN book
    PROVE  GoodBook(RemoveAt(book, k))
<1>1. book \in Seq(Addresses) /\ Len(book) \in Nat /\ k \in 1..Len(book) BY DEF GoodBook
<1>2. PICK old : old = Len(book) OBVIOUS
<1>3. PICK low : low = SubSeq(book, 1, k - 1) OBVIOUS
<1>4. PICK high : high = SubSeq(book, k + 1, old) OBVIOUS
<1>5. \A n \in 1..old : book[n] \in Addresses BY <1>1, <1>2
<1>6. /\ low \in Seq(Addresses) /\ Len(low) = k - 1
      /\ \A n \in 1..k - 1 : low[n] = book[n]
  <2>1. \A n \in 1..k - 1 : book[n] \in Addresses BY <1>1, <1>2, <1>5
  <2>2. /\ low \in Seq(Addresses) /\ Len(low) = (IF 1 <= k - 1 THEN (k - 1) - 1 + 1 ELSE 0)
        /\ \A n \in 1..(k - 1) - 1 + 1 : low[n] = book[1 + n - 1]
    BY <1>1, <1>3, <2>1, SubSeqProperties
  <2> QED BY <1>1, <2>2
<1>7. /\ high \in Seq(Addresses) /\ Len(high) = old - k
      /\ \A n \in 1..old - k : high[n] = book[k + n]
  <2>1. \A n \in k + 1..old : book[n] \in Addresses BY <1>1, <1>2, <1>5
  <2>2. /\ high \in Seq(Addresses) /\ Len(high) = (IF k + 1 <= old THEN old - (k + 1) + 1 ELSE 0)
        /\ \A n \in 1..old - (k + 1) + 1 : high[n] = book[(k + 1) + n - 1]
    BY <1>1, <1>2, <1>4, <2>1, SubSeqProperties
  <2>3. old \in Int /\ k \in Int /\ k <= old /\ old - (k + 1) + 1 = old - k BY <1>1, <1>2
  <2>4. Len(high) = old - k BY <2>2, <2>3
  <2>5. ASSUME NEW n \in 1..old - k PROVE high[n] = book[k + n]
    <3>1. (k + 1) + n - 1 = k + n BY <2>3
    <3>2. high[n] = book[(k + 1) + n - 1] BY <2>2, <2>3
    <3> QED BY <3>1, <3>2
  <2> QED BY <2>2, <2>4, <2>5
<1>8. PICK new : new = low \o high OBVIOUS
<1>9. /\ new \in Seq(Addresses) /\ Len(new) = Len(low) + Len(high)
      /\ \A n \in 1..Len(low) + Len(high) : new[n] = IF n <= Len(low) THEN low[n] ELSE high[n - Len(low)]
  BY <1>6, <1>7, <1>8, ConcatProperties
<1>10. Len(new) = old - 1 BY <1>1, <1>2, <1>6, <1>7, <1>9
<1>11. \A n \in 1..old - 1 : new[n] = book[IF n < k THEN n ELSE n + 1]
  <2> SUFFICES ASSUME NEW n \in 1..old - 1 PROVE new[n] = book[IF n < k THEN n ELSE n + 1] OBVIOUS
  <2>i. n \in Int /\ k \in Int /\ old \in Int /\ 1 <= n /\ n <= old - 1 /\ 1 <= k /\ k <= old
    BY <1>1, <1>2
  <2>l. Len(low) = k - 1 /\ Len(high) = old - k BY <1>6, <1>7
  <2>1. n \in 1..Len(low) + Len(high) BY <2>i, <2>l
  <2>h. new[n] = IF n <= Len(low) THEN low[n] ELSE high[n - Len(low)] BY <1>9, <2>1
  <2>2. CASE n < k
    <3>1. n \in 1..k - 1 /\ n <= Len(low) BY <2>2, <2>i, <2>l
    <3>2. low[n] = book[n] BY <3>1, <1>6
    <3> QED BY <2>2, <2>h, <3>1, <3>2
  <2>3. CASE ~(n < k)
    <3>1. ~(n <= k - 1) BY <2>i, <2>3
    <3>2. new[n] = high[n - (k - 1)] BY <2>h, <2>l, <3>1
    <3>3. n - (k - 1) \in 1..old - k BY <2>i, <2>3
    <3>4. high[n - (k - 1)] = book[k + (n - (k - 1))] BY <1>7, <3>3
    <3>5. k + (n - (k - 1)) = n + 1 BY <2>i
    <3> QED BY <2>3, <3>2, <3>4, <3>5
  <2> QED BY <2>2, <2>3
<1>12. ASSUME NEW m \in 1..old - 1, NEW n \in 1..old - 1, m # n
       PROVE  new[m].id # new[n].id /\ ~(new[m].isDefault /\ new[n].isDefault)
  <2>1. PICK i : i = IF m < k THEN m ELSE m + 1 OBVIOUS
  <2>2. PICK j : j = IF n < k THEN n ELSE n + 1 OBVIOUS
  <2>3. i \in 1..old /\ j \in 1..old /\ i # j BY <1>1, <1>2, <1>12, <2>1, <2>2
  <2>4. new[m] = book[i] /\ new[n] = book[j] BY <1>11, <2>1, <2>2
  <2> QED BY <1>2, <2>3, <2>4 DEF GoodBook
<1>13. RemoveAt(book, k) = new BY <1>2, <1>3, <1>4, <1>8 DEF RemoveAt
<1> QED BY <1>9, <1>10, <1>12, <1>13 DEF GoodBook

LEMMA ChangedGood ==
    ASSUME NEW book, GoodBook(book), NEW new \in Changed(book)
    PROVE  GoodBook(new)
<1>1. CASE \E id \in AddressIds \ Ids(book), d \in BOOLEAN : new = Added(book, id, d)
  BY <1>1, AddedGood
<1>2. CASE \E id \in Ids(book), d \in BOOLEAN : new = Updated(book, id, d)
  BY <1>2, UpdatedGood
<1>3. CASE \E k \in DOMAIN book : new = RemoveAt(book, k)
  BY <1>3, RemovedGood
<1> QED BY <1>1, <1>2, <1>3 DEF Changed

AddressInv ==
    /\ DOMAIN account = Customers /\ DOMAIN accountPc = Visitors /\ DOMAIN accountLoc = Visitors
    /\ \A u \in Customers : DOMAIN account[u] = DOMAIN NoAccount /\ GoodBook(account[u].addresses)
    /\ \A v \in Visitors : accountPc[v] = "writeAddresses" => GoodBook(accountLoc[v].book)

LEMMA BookFields == DOMAIN NoAccount = {"live", "verified", "active", "passwordChangedAt",
                                       "tokensRevokedAt", "addresses", "logouts"}
BY DEF NoAccount

(* What a step writes in an account besides the book does not matter.      *)
SameBooks == /\ DOMAIN account' = Customers
             /\ \A u \in Customers : /\ DOMAIN account'[u] = DOMAIN NoAccount
                                     /\ account'[u].addresses = account[u].addresses

LEMMA BookWalk ==
    ASSUME AddressInv, NEW v \in Visitors, NEW label, NEW held, VisitGo(v, label, held),
           DOMAIN account' = Customers,
           \A u \in Customers : DOMAIN account'[u] = DOMAIN NoAccount /\ GoodBook(account'[u].addresses),
           label = "writeAddresses" => GoodBook(held.book)
    PROVE  AddressInv'
<1>1. /\ accountPc'[v] = label /\ accountLoc'[v] = held
      /\ \A w \in Visitors : w # v => accountPc'[w] = accountPc[w] /\ accountLoc'[w] = accountLoc[w]
      /\ DOMAIN accountPc' = Visitors /\ DOMAIN accountLoc' = Visitors
  BY DEF AddressInv, VisitGo
<1>2. ASSUME NEW w \in Visitors, accountPc'[w] = "writeAddresses"
      PROVE  GoodBook(accountLoc'[w].book)
  <2>1. CASE w = v BY <1>1, <1>2, <2>1
  <2>2. CASE w # v BY <1>1, <1>2, <2>2 DEF AddressInv
  <2> QED BY <2>1, <2>2
<1>3. \A w \in Visitors : accountPc'[w] = "writeAddresses" => GoodBook(accountLoc[w].book)'
  BY <1>2 DEF GoodBook, Addresses
<1>4. \A u \in Customers : GoodBook(account[u].addresses)' BY DEF GoodBook, Addresses
<1> QED BY <1>1, <1>3, <1>4 DEF AddressInv

LEMMA BookStays ==
    ASSUME AddressInv, UNCHANGED account
    PROVE  SameBooks
BY DEF AddressInv, SameBooks

LEMMA OtherWalk ==
    ASSUME AddressInv, SameBooks,
           \/ UNCHANGED <<accountPc, accountLoc>>
           \/ \E v \in Visitors : \E label, held : VisitGo(v, label, held) /\ label # "writeAddresses"
    PROVE  AddressInv'
<1>1. \A u \in Customers : DOMAIN account'[u] = DOMAIN NoAccount /\ GoodBook(account'[u].addresses)
  BY DEF AddressInv, SameBooks
<1>2. CASE UNCHANGED <<accountPc, accountLoc>>
  <2>1. \A u \in Customers : GoodBook(account[u].addresses)'
    BY <1>1 DEF GoodBook, Addresses
  <2>2. \A v \in Visitors : accountPc'[v] = "writeAddresses" => GoodBook(accountLoc[v].book)'
    BY <1>2 DEF AddressInv, GoodBook, Addresses
  <2> QED BY <1>1, <1>2, <2>1, <2>2 DEF AddressInv, SameBooks
<1>3. CASE \E v \in Visitors : \E label, held : VisitGo(v, label, held) /\ label # "writeAddresses"
  BY <1>1, <1>3, BookWalk DEF SameBooks
<1> QED BY <1>2, <1>3

LEMMA CodeStepBooks ==
    ASSUME AddressInv, NEW v \in Visitors, CodeStep(v)
    PROVE  AddressInv'
<1>0. DOMAIN account = Customers /\ \A u \in Customers : DOMAIN account[u] = DOMAIN NoAccount
  BY DEF AddressInv
<1>1. SameBooks
  <2>1. CASE CreateAccount(v)
    <3>1. \E x : account' = [account EXCEPT ![x].live = TRUE] BY <2>1 DEF CreateAccount
    <3> QED BY <1>0, <3>1, BookFields DEF SameBooks
  <2>2. CASE WritePassword(v)
    <3>1. \E x : account' = [account EXCEPT ![x].passwordChangedAt = second]
      BY <2>2 DEF WritePassword
    <3> QED BY <1>0, <3>1, BookFields DEF SameBooks
  <2>3. CASE VerifyEmail(v)
    <3>1. \E x : account' = [account EXCEPT ![x].verified = TRUE] BY <2>3 DEF VerifyEmail
    <3> QED BY <1>0, <3>1, BookFields DEF SameBooks
  <2>4. CASE ~CreateAccount(v) /\ ~WritePassword(v) /\ ~VerifyEmail(v)
    <3>1. UNCHANGED account
      BY <2>4 DEF CodeStep, ReadSignup, ReadForCode, DropCodes, CreateCode, ReadCode, SpendCode,
                  IssueReset, ReadReset, RevokeReset
    <3> QED BY <3>1, BookStays
  <2> QED BY <2>1, <2>2, <2>3, <2>4
<1>2. \E label, held : VisitGo(v, label, held) /\ label # "writeAddresses"
  <2>1. CASE ReadSignup(v) BY <2>1 DEF ReadSignup
  <2>2. CASE CreateAccount(v) BY <2>2 DEF CreateAccount, VisitDone
  <2>3. CASE ReadForCode(v) BY <2>3 DEF ReadForCode
  <2>4. CASE DropCodes(v)
    <3>1. PICK label : /\ label = IF accountPc[v] = "dropCodes" THEN "createCode" ELSE "revokeReset"
                       /\ VisitGo(v, label, accountLoc[v])
      BY <2>4 DEF DropCodes
    <3>2. label # "writeAddresses" BY <3>1
    <3> QED BY <3>1, <3>2
  <2>5. CASE CreateCode(v) BY <2>5 DEF CreateCode, VisitDone
  <2>6. CASE ReadCode(v)
    <3>1. PICK type, held :
             VisitGo(v, IF type = "CONFIRMATION" THEN "verify" ELSE "spendCode", held)
      BY <2>6 DEF ReadCode
    <3>2. (IF type = "CONFIRMATION" THEN "verify" ELSE "spendCode") # "writeAddresses" OBVIOUS
    <3> QED BY <3>1, <3>2
  <2>7. CASE VerifyEmail(v) BY <2>7 DEF VerifyEmail
  <2>8. CASE SpendCode(v) BY <2>8 DEF SpendCode, VisitDone
  <2>9. CASE IssueReset(v) BY <2>9 DEF IssueReset, VisitDone
  <2>10. CASE ReadReset(v) BY <2>10 DEF ReadReset
  <2>11. CASE WritePassword(v) BY <2>11 DEF WritePassword
  <2>12. CASE RevokeReset(v) BY <2>12 DEF RevokeReset, VisitDone
  <2> QED BY <2>1, <2>2, <2>3, <2>4, <2>5, <2>6, <2>7, <2>8, <2>9, <2>10, <2>11, <2>12 DEF CodeStep
<1> QED BY <1>1, <1>2, OtherWalk

LEMMA SessionStepBooks ==
    ASSUME AddressInv, NEW v \in Visitors, SessionStep(v)
    PROVE  AddressInv'
<1>0. DOMAIN account = Customers /\ \A u \in Customers : DOMAIN account[u] = DOMAIN NoAccount
  BY DEF AddressInv
<1>1. SameBooks
  <2>1. CASE StampLogout(v)
    <3>1. PICK x : account' = [account EXCEPT ![x].logouts = @ + 1, ![x].tokensRevokedAt = second]
      BY <2>1 DEF StampLogout
    <3>2. \A u \in Customers : \/ account'[u] = account[u]
                              \/ \E a, b : account'[u] =
                                    [account[u] EXCEPT !.logouts = a, !.tokensRevokedAt = b]
      BY <1>0, <3>1
    <3> QED BY <1>0, <3>1, <3>2, BookFields DEF SameBooks
  <2>2. CASE UpdateStatus(v)
    <3>1. PICK x, b : account' = [account EXCEPT ![x].active = b] BY <2>2, Zenon DEF UpdateStatus
    <3>2. \A u \in Customers : \/ account'[u] = account[u]
                              \/ account'[u] = [account[u] EXCEPT !.active = b]
      BY <1>0, <3>1
    <3> QED BY <1>0, <3>1, <3>2, BookFields DEF SameBooks
  <2>3. CASE ~StampLogout(v) /\ ~UpdateStatus(v)
    <3>1. UNCHANGED account
      BY <2>3, Zenon DEF SessionStep, Login, AdmitRefresh, ReadRotation, RevokeOld, IssuePair, AdmitLogout,
                  RevokeAccess, RevokeRefresh
    <3> QED BY <3>1, BookStays
  <2> QED BY <2>1, <2>2, <2>3
<1>2. \/ UNCHANGED <<accountPc, accountLoc>>
      \/ \E label, held : VisitGo(v, label, held) /\ label # "writeAddresses"
  <2>1. CASE Login(v) \/ UpdateStatus(v) BY <2>1 DEF Login, UpdateStatus
  <2>2. CASE AdmitRefresh(v)
    <3>1. PICK held : VisitGo(v, "rotate", held) BY <2>2 DEF AdmitRefresh
    <3> QED BY <3>1
  <2>3. CASE ReadRotation(v) BY <2>3 DEF ReadRotation, VisitDone
  <2>4. CASE RevokeOld(v) BY <2>4 DEF RevokeOld
  <2>5. CASE IssuePair(v) BY <2>5 DEF IssuePair, VisitDone
  <2>6. CASE AdmitLogout(v)
    <3>1. PICK held : VisitGo(v, "revokeAccess", held) BY <2>6 DEF AdmitLogout
    <3> QED BY <3>1
  <2>7. CASE RevokeAccess(v)
    <3>1. PICK label : /\ label = IF accountLoc[v].other = 0 THEN "stampLogout" ELSE "revokeRefresh"
                       /\ VisitGo(v, label, accountLoc[v])
      BY <2>7 DEF RevokeAccess
    <3>2. label # "writeAddresses" BY <3>1
    <3> QED BY <3>1, <3>2
  <2>8. CASE RevokeRefresh(v) BY <2>8 DEF RevokeRefresh
  <2>9. CASE StampLogout(v) BY <2>9 DEF StampLogout, VisitDone
  <2> QED BY <2>1, <2>2, <2>3, <2>4, <2>5, <2>6, <2>7, <2>8, <2>9 DEF SessionStep
<1> QED BY <1>1, <1>2, OtherWalk

LEMMA AddressStepBooks ==
    ASSUME AddressInv, NEW v \in Visitors, AddressStep(v)
    PROVE  AddressInv'
<1>1. CASE ReadAddresses(v)
  <2>1. PICK u \in Customers : \E book \in Changed(account[u].addresses) :
           VisitGo(v, "writeAddresses", [Visit(u, "") EXCEPT !.book = book])
    BY <1>1 DEF ReadAddresses
  <2>2. PICK book \in Changed(account[u].addresses) :
           VisitGo(v, "writeAddresses", [Visit(u, "") EXCEPT !.book = book])
    BY <2>1
  <2>3. PICK old : old = account[u].addresses OBVIOUS
  <2>4. GoodBook(old) BY <2>3 DEF AddressInv
  <2>5. GoodBook(book) BY <2>2, <2>3, <2>4, ChangedGood
  <2>6. PICK held : held = [Visit(u, "") EXCEPT !.book = book] OBVIOUS
  <2>7. held.book = book BY <2>6 DEF Visit, NoVisit
  <2>8. UNCHANGED account BY <1>1 DEF ReadAddresses
  <2> QED BY <2>2, <2>5, <2>6, <2>7, <2>8, BookWalk DEF AddressInv
<1>2. CASE WriteAddresses(v)
  <2>1. PICK x, book : x = accountLoc[v].user /\ book = accountLoc[v].book OBVIOUS
  <2>2. /\ account' = [account EXCEPT ![x].addresses = book] /\ VisitGo(v, "idle", NoVisit)
        /\ accountPc[v] = "writeAddresses"
    BY <1>2, <2>1 DEF WriteAddresses, VisitDone
  <2>3. GoodBook(book) BY <2>1, <2>2 DEF AddressInv
  <2>4. /\ DOMAIN account' = Customers
        /\ \A u \in Customers : DOMAIN account'[u] = DOMAIN NoAccount
        /\ \A u \in Customers : account'[u].addresses \in {account[u].addresses, book}
    BY <2>2, BookFields DEF AddressInv
  <2>5. \A u \in Customers : GoodBook(account'[u].addresses) BY <2>3, <2>4 DEF AddressInv
  <2> QED BY <2>2, <2>4, <2>5, BookWalk
<1> QED BY <1>1, <1>2 DEF AddressStep

(* However requests read, change and write back an address book in turn,   *)
(* it has at most one default address: proved for any number of customers, *)
(* addresses and overlapping requests, with no further hypothesis.         *)
THEOREM DefaultCorrect == SpecAccounts => []AtMostOneDefaultAddress
<1>1. InitAccounts => AddressInv
  <2> SUFFICES ASSUME InitAccounts PROVE AddressInv OBVIOUS
  <2>1. PICK empty : empty = <<>> OBVIOUS
  <2>2. GoodBook(empty) BY <2>1 DEF GoodBook
  <2>3. NoAccount.addresses = empty BY <2>1 DEF NoAccount
  <2>4. \A u \in Customers : account[u] = NoAccount BY DEF InitAccounts
  <2> QED BY <2>2, <2>3, <2>4 DEF AddressInv, InitAccounts
<1>2. AddressInv /\ [NextAccounts]_accountVars => AddressInv'
  <2> SUFFICES ASSUME AddressInv, [NextAccounts]_accountVars PROVE AddressInv' OBVIOUS
  <2>1. CASE NextSecond \/ UNCHANGED accountVars
    <3>1. UNCHANGED <<account, accountPc, accountLoc>> BY <2>1 DEF NextSecond, accountVars
    <3> QED BY <3>1, BookStays, OtherWalk
  <2> QED BY <2>1, CodeStepBooks, SessionStepBooks, AddressStepBooks DEF NextAccounts
<1>3. AddressInv => AtMostOneDefaultAddress
  <2> SUFFICES ASSUME AddressInv, NEW u \in Customers,
                      NEW m \in DOMAIN account[u].addresses, NEW n \in DOMAIN account[u].addresses,
                      account[u].addresses[m].isDefault, account[u].addresses[n].isDefault
               PROVE  m = n
    BY DEF AtMostOneDefaultAddress
  <2>1. PICK book : book = account[u].addresses OBVIOUS
  <2>2. GoodBook(book) BY <2>1 DEF AddressInv
  <2>3. DOMAIN book = 1..Len(book) BY <2>2 DEF GoodBook
  <2> QED BY <2>1, <2>2, <2>3 DEF GoodBook
<1> QED BY <1>1, <1>2, <1>3, PTL DEF SpecAccounts
===============================================================================
