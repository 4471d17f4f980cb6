------------------------------- MODULE Catalogue -------------------------------
(***************************************************************************)
(* Restaurants and their owners, categories, products, recipes and         *)
(* ingredients.                                                            *)
(*                                                                         *)
(* Every handler reads and checks first, then writes document by document: *)
(* no write repeats a check, only the unique indexes do.  The sessions     *)
(* some handlers open never reach a repository, so a cascade is as many    *)
(* steps as it has writes.                                                 *)
(***************************************************************************)
EXTENDS Integers, FiniteSets

CONSTANTS
    People,         \* managers, who may own a restaurant
    Branches,       \* restaurants
    Signs,          \* names of restaurants
    Titles,         \* names of products
    ProductIds, Sections, Stuffs,   \* products, categories, ingredients
    Caps,           \* numbers of products a subscription may allow
    Clerks,         \* handlers of managers and staff
    Chiefs,         \* handlers of administrators
    Nobody          \* no person, restaurant, name, title or category

CatalogueStaff == Clerks \cup Chiefs

ASSUME CatalogueAssumption ==
    Caps \subseteq Nat /\ IsFiniteSet(ProductIds) /\ IsFiniteSet(Clerks)

VARIABLES
    person,         \* person[u]: [deleted, at] (restaurantId)
    branch,         \* branch[r]: [phase, owner, sign, cap]; granted: the most its cap has been
    section,        \* section[c]: [phase, default] (named 'Default Category')
    product,        \* product[p]: [phase, of, title, slug, section, available]; via: how it came
    recipe,         \* recipe[p]: the live recipe of p, its restaurant and ingredients
    stuff,          \* stuff[i]: [phase, of]
    cataloguePc, catalogueLoc

catalogueVars == <<person, branch, section, product, recipe, stuff, cataloguePc, catalogueLoc>>

-------------------------------------------------------------------------------
(* No subscription allows nothing: effectiveProductCap is 0. *)
NoBranch == [phase |-> "none", owner |-> Nobody, sign |-> Nobody, cap |-> 0, granted |-> 0]

NoSection == [phase |-> "none", default |-> FALSE]

NoProduct == [phase |-> "none", of |-> Nobody, title |-> Nobody, slug |-> <<Nobody, Nobody>>,
              section |-> Nobody, available |-> FALSE, via |-> "none"]

NoRecipe == [of |-> Nobody, uses |-> {}]

(* The document at hand, the restaurant, people and category it concerns,  *)
(* the product to write, the ingredients or products still to treat.       *)
CatalogueNothing == [id |-> Nobody, branch |-> Nobody, user |-> Nobody, former |-> Nobody,
                     section |-> Nobody, doc |-> NoProduct, todo |-> {}]

InitCatalogue ==
    /\ person = [u \in People |-> [deleted |-> FALSE, at |-> Nobody]]
    /\ branch = [r \in Branches |-> NoBranch]
    /\ section = [c \in Sections |-> IF c = CHOOSE d \in Sections : TRUE
                                     THEN [phase |-> "live", default |-> TRUE] ELSE NoSection]
    /\ product = [p \in ProductIds |-> NoProduct]
    /\ recipe = [p \in ProductIds |-> NoRecipe]
    /\ stuff = [i \in Stuffs |-> [phase |-> "none", of |-> Nobody]]
    /\ cataloguePc = [w \in CatalogueStaff |-> "idle"]
    /\ catalogueLoc = [w \in CatalogueStaff |-> CatalogueNothing]

CatalogueGo(w, label, held) == /\ cataloguePc' = [cataloguePc EXCEPT ![w] = label]
                               /\ catalogueLoc' = [catalogueLoc EXCEPT ![w] = held]

CatalogueDone(w) == CatalogueGo(w, "idle", CatalogueNothing)

Live(f) == {x \in DOMAIN f : f[x].phase = "live"}

ProductsOf(r) == {p \in Live(product) : product[p].of = r}

(* Whether manager u may own r: not deleted, not at another live one. *)
FreeFor(u, r) == ~person[u].deleted /\ (person[u].at \in Live(branch) => person[u].at = r)

(* getManagerRestaurantId: where the manager works, else what it owns. *)
RestaurantsOf(u) ==
    IF person[u].deleted THEN {}
    ELSE IF person[u].at # Nobody THEN {person[u].at}
    ELSE {r \in Live(branch) : branch[r].owner = u}

(* The restaurants a request may concern: administrators name any. *)
WithinReach(w) == IF w \in Chiefs THEN Branches ELSE UNION {RestaurantsOf(u) : u \in People}

(* The unique indexes on owner and name of the restaurants not deleted. *)
BranchFits(r, owner, sign) ==
    \A s \in Live(branch) \ {r} : branch[s].owner # owner /\ branch[s].sign # sign

(* The unique indexes on slug and on title, deleted products included. *)
ProductFits(p, doc) ==
    \A q \in DOMAIN product \ {p} : product[q].phase # "none" =>
        product[q].slug # doc.slug /\ <<product[q].of, product[q].title>> # <<doc.of, doc.title>>

-------------------------------------------------------------------------------
(* createRestaurant *)
ReadNewOwner(w) ==
    /\ w \in Chiefs /\ cataloguePc[w] = "idle"
    /\ \E r \in Branches, u \in People, s \in Signs :
          /\ branch[r].phase = "none"
          /\ FreeFor(u, r)
          /\ \A b \in Live(branch) : branch[b].sign # s
          /\ CatalogueGo(w, "open", [CatalogueNothing EXCEPT !.branch = r, !.user = u, !.id = s])
    /\ UNCHANGED <<person, branch, section, product, recipe, stuff>>

OpenBranch(w) ==
    LET l == catalogueLoc[w]
    IN  /\ cataloguePc[w] = "open" /\ branch[l.branch].phase = "none"
        /\ IF BranchFits(l.branch, l.user, l.id)
           THEN /\ branch' = [branch EXCEPT ![l.branch].phase = "live", ![l.branch].owner = l.user,
                                            ![l.branch].sign = l.id]
                /\ CatalogueGo(w, "assign", l)
           ELSE CatalogueDone(w) /\ UNCHANGED branch
        /\ UNCHANGED <<person, section, product, recipe, stuff>>

AssignOwner(w) ==
    /\ cataloguePc[w] = "assign"
    /\ person' = [person EXCEPT ![catalogueLoc[w].user].at = catalogueLoc[w].branch]
    /\ IF catalogueLoc[w].doc.title = Nobody THEN CatalogueDone(w)
       ELSE CatalogueGo(w, "renameSlugs", catalogueLoc[w])
    /\ UNCHANGED <<branch, section, product, recipe, stuff>>

(* updateRestaurant: owner and name, checked ... *)
ReadBranch(w) ==
    /\ w \in Chiefs /\ cataloguePc[w] = "idle"
    /\ \E r \in Live(branch), u \in People, s \in Signs :
          /\ u # branch[r].owner => FreeFor(u, r)
          /\ \A b \in Live(branch) \ {r} : branch[b].sign # s
          /\ <<u, s>> # <<branch[r].owner, branch[r].sign>>
          /\ CatalogueGo(w, "rewrite", [CatalogueNothing EXCEPT
                !.branch = r, !.user = u, !.former = branch[r].owner, !.id = s,
                !.doc.title = IF s # branch[r].sign THEN s ELSE Nobody])
    /\ UNCHANGED <<person, branch, section, product, recipe, stuff>>

(* ... written by _id, ... *)
RewriteBranch(w) ==
    LET l == catalogueLoc[w]
    IN  /\ cataloguePc[w] = "rewrite"
        /\ IF branch[l.branch].phase = "live" => BranchFits(l.branch, l.user, l.id)
           THEN /\ branch' = [branch EXCEPT ![l.branch].owner = l.user, ![l.branch].sign = l.id]
                /\ CatalogueGo(w, IF l.user # l.former THEN "release" ELSE "renameSlugs", l)
           ELSE CatalogueDone(w) /\ UNCHANGED branch
        /\ UNCHANGED <<person, section, product, recipe, stuff>>

(* ... the former owner is released and the new one assigned, ... *)
ReleaseFormer(w) ==
    /\ cataloguePc[w] = "release"
    /\ person' = IF catalogueLoc[w].former = Nobody THEN person
                 ELSE [person EXCEPT ![catalogueLoc[w].former].at = Nobody]
    /\ CatalogueGo(w, "assign", catalogueLoc[w])
    /\ UNCHANGED <<branch, section, product, recipe, stuff>>

(* ... and with a new name the slugs follow, one product at a time; a slug *)
(* that exists, of a deleted product too, ends the loop.                   *)
FindSlugs(w) ==
    /\ cataloguePc[w] = "renameSlugs"
    /\ CatalogueGo(w, "renameSlug", [catalogueLoc[w] EXCEPT !.todo = ProductsOf(catalogueLoc[w].branch)])
    /\ UNCHANGED <<person, branch, section, product, recipe, stuff>>

RenameSlug(w) ==
    LET l   == catalogueLoc[w]
        new(p) == [product[p] EXCEPT !.slug = <<l.id, product[p].title>>]
    IN  /\ cataloguePc[w] = "renameSlug"
        /\ \/ l.todo = {} /\ CatalogueDone(w) /\ UNCHANGED product
           \/ \E p \in l.todo :
                IF \A q \in DOMAIN product \ {p} : product[q].slug # new(p).slug
                THEN /\ product' = [product EXCEPT ![p] = new(p)]
                     /\ CatalogueGo(w, "renameSlug", [l EXCEPT !.todo = @ \ {p}])
                ELSE CatalogueDone(w) /\ UNCHANGED product
        /\ UNCHANGED <<person, branch, section, recipe, stuff>>

(* softDeleteRestaurant: the restaurant, then what belongs to it. *)
CloseBranch(w) ==
    /\ w \in Chiefs /\ cataloguePc[w] = "idle"
    /\ \E r \in Live(branch) :
          /\ branch' = [branch EXCEPT ![r].phase = "deleted", ![r].owner = Nobody]
          /\ CatalogueGo(w, "dropProducts",
                         [CatalogueNothing EXCEPT !.branch = r, !.former = branch[r].owner])
    /\ UNCHANGED <<person, section, product, recipe, stuff>>

DropProducts(w) ==
    /\ cataloguePc[w] = "dropProducts"
    /\ product' = [p \in ProductIds |->
          IF p \in ProductsOf(catalogueLoc[w].branch)
          THEN [product[p] EXCEPT !.phase = "deleted"] ELSE product[p]]
    /\ CatalogueGo(w, "dropStuffs", catalogueLoc[w])
    /\ UNCHANGED <<person, branch, section, recipe, stuff>>

DropStuffs(w) ==
    /\ cataloguePc[w] = "dropStuffs"
    /\ stuff' = [i \in Stuffs |->
          IF stuff[i].of = catalogueLoc[w].branch THEN [stuff[i] EXCEPT !.phase = "deleted"] ELSE stuff[i]]
    /\ CatalogueGo(w, "dropRecipes", catalogueLoc[w])
    /\ UNCHANGED <<person, branch, section, product, recipe>>

DropRecipes(w) ==
    /\ cataloguePc[w] = "dropRecipes"
    /\ recipe' = [p \in ProductIds |->
          IF recipe[p].of = catalogueLoc[w].branch THEN NoRecipe ELSE recipe[p]]
    /\ CatalogueGo(w, "freeOwner", catalogueLoc[w])
    /\ UNCHANGED <<person, branch, section, product, stuff>>

FreeOwner(w) ==
    /\ cataloguePc[w] = "freeOwner"
    /\ person' = IF catalogueLoc[w].former = Nobody THEN person
                 ELSE [person EXCEPT ![catalogueLoc[w].former].at = Nobody]
    /\ CatalogueDone(w)
    /\ UNCHANGED <<branch, section, product, recipe, stuff>>

(* The subscription of a restaurant starts, grows, shrinks or lapses. *)
ChangeCap(r) ==
    /\ \E n \in Caps :
          branch' = [branch EXCEPT ![r].cap = n,
                                   ![r].granted = IF branch[r].granted < n THEN n ELSE branch[r].granted]
    /\ branch[r].phase = "live"
    /\ UNCHANGED <<person, section, product, recipe, stuff, cataloguePc, catalogueLoc>>

-------------------------------------------------------------------------------
(* Mutant: the restaurants of the manager are not looked up. *)
ReadLeaverUnowned(w) ==
    /\ w \in Chiefs /\ cataloguePc[w] = "idle"
    /\ \E u \in People : ~person[u].deleted
                         /\ CatalogueGo(w, "deleteUser", [CatalogueNothing EXCEPT !.user = u])
    /\ UNCHANGED <<person, branch, section, product, recipe, stuff>>

(* softDeleteUser: refused for the owner of a live restaurant. *)
ReadLeaver(w) ==
    /\ w \in Chiefs /\ cataloguePc[w] = "idle"
    /\ \E u \in People :
          /\ ~person[u].deleted
          /\ \A r \in Live(branch) : branch[r].owner # u
          /\ CatalogueGo(w, "deleteUser", [CatalogueNothing EXCEPT !.user = u])
    /\ UNCHANGED <<person, branch, section, product, recipe, stuff>>

DeletePerson(w) ==
    /\ cataloguePc[w] = "deleteUser"
    /\ person' = [person EXCEPT ![catalogueLoc[w].user] = [deleted |-> TRUE, at |-> Nobody]]
    /\ CatalogueDone(w)
    /\ UNCHANGED <<branch, section, product, recipe, stuff>>

(* updateUser: an administrator moves a manager to any live restaurant, or *)
(* to none.                                                                *)
MovePerson(w) ==
    /\ w \in Chiefs /\ cataloguePc[w] = "idle"
    /\ \E u \in People, r \in Live(branch) \cup {Nobody} :
          /\ ~person[u].deleted
          /\ person' = [person EXCEPT ![u].at = r]
    /\ UNCHANGED <<branch, section, product, recipe, stuff, cataloguePc, catalogueLoc>>

-------------------------------------------------------------------------------
(* createCategory and updateCategory, with the name of the default one or  *)
(* another; the index on the name counts deleted categories.               *)
WriteSection(w) ==
    /\ w \in Chiefs /\ cataloguePc[w] = "idle"
    /\ \E c \in Sections, default \in BOOLEAN :
          /\ section[c].phase # "deleted"
          /\ default => \A d \in Sections \ {c} : ~section[d].default
          /\ section' = [section EXCEPT ![c] = [phase |-> "live", default |-> default]]
    /\ UNCHANGED <<person, branch, product, recipe, stuff, cataloguePc, catalogueLoc>>

(* deleteCategory: not the default one, whose existence is ensured (found, *)
(* restored or created); its products move there, then it is deleted.      *)
ReadSection(w) ==
    /\ w \in Chiefs /\ cataloguePc[w] = "idle"
    /\ \E c \in Live(section) :
          /\ ~section[c].default
          /\ CatalogueGo(w, "ensureDefault", [CatalogueNothing EXCEPT !.section = c])
    /\ UNCHANGED <<person, branch, section, product, recipe, stuff>>

EnsureDefault(w) ==
    LET named == {c \in Sections : section[c].default}
    IN  /\ cataloguePc[w] = "ensureDefault"
        /\ \E c \in IF named # {} THEN named ELSE {d \in Sections : section[d].phase = "none"} :
              /\ section' = [section EXCEPT ![c] = [phase |-> "live", default |-> TRUE]]
              /\ CatalogueGo(w, "reassign", [catalogueLoc[w] EXCEPT !.id = c])
        /\ UNCHANGED <<person, branch, product, recipe, stuff>>

ReassignProducts(w) ==
    LET l == catalogueLoc[w]
    IN  /\ cataloguePc[w] = "reassign"
        /\ product' = [p \in ProductIds |->
              IF product[p].section = l.section THEN [product[p] EXCEPT !.section = l.id] ELSE product[p]]
        /\ CatalogueGo(w, "deleteSection", l)
        /\ UNCHANGED <<person, branch, section, recipe, stuff>>

DeleteSection(w) ==
    /\ cataloguePc[w] = "deleteSection"
    /\ section' = [section EXCEPT ![catalogueLoc[w].section].phase = "deleted"]
    /\ CatalogueDone(w)
    /\ UNCHANGED <<person, branch, product, recipe, stuff>>

-------------------------------------------------------------------------------
(* A product as a request describes it: live category and restaurant, and  *)
(* a slug no live product has.                                             *)
Described(r, t, c, via) == [phase |-> "live", of |-> r, title |-> t, slug |-> <<branch[r].sign, t>>,
                            section |-> c, available |-> TRUE, via |-> via]

SlugFree(p, slug) == \A q \in Live(product) \ {p} : product[q].slug # slug

(* Mutant: the last place is given twice. *)
HasRoomOff(r) == Cardinality(ProductsOf(r)) <= branch[r].cap

(* assertProductCapacity *)
HasRoom(r) == Cardinality(ProductsOf(r)) < branch[r].cap

(* createProduct: the cap is counted, the product inserted later. *)
ReadForProduct(w) ==
    /\ cataloguePc[w] = "idle"
    /\ \E p \in ProductIds, t \in Titles, c \in Live(section), r \in WithinReach(w) \cap Live(branch) :
          /\ product[p] = NoProduct
          /\ w \in Clerks => HasRoom(r)
          /\ SlugFree(p, <<branch[r].sign, t>>)
          /\ CatalogueGo(w, "insert", [CatalogueNothing EXCEPT !.id = p,
                !.doc = Described(r, t, c, IF w \in Chiefs THEN "chief" ELSE "form")])
    /\ UNCHANGED <<person, branch, section, product, recipe, stuff>>

InsertProduct(w) ==
    LET l == catalogueLoc[w]
    IN  /\ cataloguePc[w] = "insert"
        /\ product' = IF product[l.id] = NoProduct /\ ProductFits(l.id, l.doc)
                      THEN [product EXCEPT ![l.id] = l.doc] ELSE product
        /\ CatalogueDone(w)
        /\ UNCHANGED <<person, branch, section, recipe, stuff>>

(* updateProduct: title, category and restaurant, each given or not; the   *)
(* slug is that of the title and restaurant to be, or written as read.     *)
(* Only an administrator moves a product to another restaurant: no cap is  *)
(* looked at, and its recipe stays in the restaurant it was made in.       *)
Given(x, old) == IF x = Nobody THEN old ELSE x

ReadProduct(w) ==
    /\ cataloguePc[w] = "idle"
    /\ \E p \in Live(product), t \in Titles \cup {Nobody}, c \in Live(section) \cup {Nobody},
          r \in Live(branch) \cup {Nobody} :
          LET renamed == t # Nobody \/ r # Nobody
              at      == Given(r, product[p].of)
              slug    == <<branch[at].sign, Given(t, product[p].title)>>
          IN  /\ product[p].of \in WithinReach(w)
              /\ w \in Clerks => r \in {product[p].of, Nobody}
              /\ renamed => at \in Live(branch) /\ SlugFree(p, slug)
              /\ CatalogueGo(w, "update", [CatalogueNothing EXCEPT
                    !.id = p, !.branch = r, !.section = c, !.doc.title = t,
                    !.doc.slug = IF renamed THEN slug ELSE product[p].slug])
    /\ UNCHANGED <<person, branch, section, product, recipe, stuff>>

UpdateProduct(w) ==
    LET l   == catalogueLoc[w]
        old == product[l.id]
        new == [old EXCEPT !.title = Given(l.doc.title, @), !.slug = l.doc.slug,
                           !.section = Given(l.section, @), !.of = Given(l.branch, @),
                           !.via = IF l.branch \in {old.of, Nobody} THEN @ ELSE "move"]
    IN  /\ cataloguePc[w] = "update"
        /\ product' = IF ProductFits(l.id, new) THEN [product EXCEPT ![l.id] = new] ELSE product
        /\ CatalogueDone(w)
        /\ UNCHANGED <<person, branch, section, recipe, stuff>>

(* A row of a menu file: the live product of the title is looked up, and   *)
(* the category, created when missing; then the product is written or      *)
(* created with a slug of its own.  Neither the restaurant nor its cap is  *)
(* read.                                                                   *)
ReadMenuRow(w) ==
    /\ w \in Clerks /\ cataloguePc[w] = "idle"
    /\ \E r \in WithinReach(w), t \in Titles, c \in Live(section) \cup {Nobody}, p \in ProductIds :
          \E doc \in {NoProduct, [Described(r, t, c, "file") EXCEPT !.slug = <<p, t>>]} :
             /\ IF doc = NoProduct
                THEN p \in ProductsOf(r) /\ product[p].title = t
                ELSE product[p] = NoProduct /\ \A q \in ProductsOf(r) : product[q].title # t
             /\ CatalogueGo(w, IF c = Nobody THEN "importSection" ELSE "importProduct",
                            [CatalogueNothing EXCEPT !.id = p, !.section = c, !.doc = doc])
    /\ UNCHANGED <<person, branch, section, product, recipe, stuff>>

ImportSection(w) ==
    /\ cataloguePc[w] = "importSection"
    /\ \E c \in Sections, default \in BOOLEAN :
          /\ section[c].phase = "none"
          /\ IF default => \A d \in Sections : ~section[d].default
             THEN /\ section' = [section EXCEPT ![c] = [phase |-> "live", default |-> default]]
                  /\ CatalogueGo(w, "importProduct", [catalogueLoc[w] EXCEPT !.section = c])
             ELSE CatalogueDone(w) /\ UNCHANGED section
    /\ UNCHANGED <<person, branch, product, recipe, stuff>>

ImportProduct(w) ==
    LET l   == catalogueLoc[w]
        new == [l.doc EXCEPT !.section = l.section]
    IN  /\ cataloguePc[w] = "importProduct"
        /\ product' =
              IF l.doc = NoProduct THEN [product EXCEPT ![l.id].section = l.section]
              ELSE IF product[l.id] = NoProduct /\ ProductFits(l.id, new)
                   THEN [product EXCEPT ![l.id] = new] ELSE product
        /\ CatalogueDone(w)
        /\ UNCHANGED <<person, branch, section, recipe, stuff>>

ChangeAvailability(w) ==
    /\ cataloguePc[w] = "idle"
    /\ \E p \in Live(product), available \in BOOLEAN :
          /\ product[p].of \in WithinReach(w)
          /\ product' = [product EXCEPT ![p].available = available]
    /\ UNCHANGED <<person, branch, section, recipe, stuff, cataloguePc, catalogueLoc>>

(* deleteProduct: the product, then its recipe (its offers are those of    *)
(* OfferMarket).                                                           *)
DeleteProduct(w) ==
    /\ cataloguePc[w] = "idle"
    /\ \E p \in Live(product) :
          /\ product[p].of \in WithinReach(w)
          /\ product' = [product EXCEPT ![p].phase = "deleted"]
          /\ CatalogueGo(w, "deleteRecipe", [CatalogueNothing EXCEPT !.id = p])
    /\ UNCHANGED <<person, branch, section, recipe, stuff>>

DeleteRecipe(w) ==
    /\ cataloguePc[w] = "deleteRecipe"
    /\ recipe' = [recipe EXCEPT ![catalogueLoc[w].id] = NoRecipe]
    /\ CatalogueDone(w)
    /\ UNCHANGED <<person, branch, section, product, stuff>>

(* upsertRecipe and the rows of a recipe file: product and ingredients are *)
(* checked, then the recipe is written.  The form finds the recipe by its  *)
(* product, the file by restaurant and product: where the recipe was made  *)
(* in another restaurant the index refuses a second one.                   *)
ReadRecipe(w) ==
    /\ w \in Clerks /\ cataloguePc[w] = "idle"
    /\ \E p \in Live(product), S \in SUBSET Live(stuff) \ {{}}, via \in {"form", "file"} :
          /\ product[p].of \in WithinReach(w)
          /\ \A i \in S : stuff[i].of = product[p].of
          /\ CatalogueGo(w, "writeRecipe", [CatalogueNothing EXCEPT
                !.id = p, !.branch = product[p].of, !.doc.via = via, !.todo = S])
    /\ UNCHANGED <<person, branch, section, product, recipe, stuff>>

WriteRecipe(w) ==
    LET l   == catalogueLoc[w]
        old == recipe[l.id]
    IN  /\ cataloguePc[w] = "writeRecipe"
        /\ recipe' = IF l.doc.via = "file" /\ old.of \notin {l.branch, Nobody} THEN recipe
                     ELSE [recipe EXCEPT ![l.id] = [of |-> Given(old.of, l.branch), uses |-> l.todo]]
        /\ CatalogueDone(w)
        /\ UNCHANGED <<person, branch, section, product, stuff>>

(* createIngredient, of a code no other has. *)
CreateStuff(w) ==
    /\ w \in Clerks /\ cataloguePc[w] = "idle"
    /\ \E i \in Stuffs, r \in WithinReach(w) :
          /\ stuff[i].phase = "none"
          /\ stuff' = [stuff EXCEPT ![i] = [phase |-> "live", of |-> r]]
    /\ UNCHANGED <<person, branch, section, product, recipe, cataloguePc, catalogueLoc>>

(* deleteIngredient: refused while a recipe of the restaurant uses it. *)
ReadStuff(w) ==
    /\ w \in Clerks /\ cataloguePc[w] = "idle"
    /\ \E i \in Live(stuff) :
          /\ stuff[i].of \in WithinReach(w)
          /\ \A p \in ProductIds : recipe[p].of = stuff[i].of => i \notin recipe[p].uses
          /\ CatalogueGo(w, "deleteStuff", [CatalogueNothing EXCEPT !.id = i])
    /\ UNCHANGED <<person, branch, section, product, recipe, stuff>>

DeleteStuff(w) ==
    /\ cataloguePc[w] = "deleteStuff"
    /\ stuff' = [stuff EXCEPT ![catalogueLoc[w].id].phase = "deleted"]
    /\ CatalogueDone(w)
    /\ UNCHANGED <<person, branch, section, product, recipe>>

-------------------------------------------------------------------------------
ChiefStep(w) ==
    \/ ReadNewOwner(w) \/ OpenBranch(w) \/ AssignOwner(w)
    \/ ReadBranch(w) \/ RewriteBranch(w) \/ ReleaseFormer(w) \/ FindSlugs(w) \/ RenameSlug(w)
    \/ CloseBranch(w) \/ DropProducts(w) \/ DropStuffs(w) \/ DropRecipes(w) \/ FreeOwner(w)
    \/ ReadLeaver(w) \/ DeletePerson(w) \/ MovePerson(w)
    \/ WriteSection(w) \/ ReadSection(w) \/ EnsureDefault(w) \/ ReassignProducts(w) \/ DeleteSection(w)

ClerkStep(w) ==
    \/ ReadForProduct(w) \/ InsertProduct(w) \/ ReadProduct(w) \/ UpdateProduct(w)
    \/ ReadMenuRow(w) \/ ImportSection(w) \/ ImportProduct(w)
    \/ ChangeAvailability(w) \/ DeleteProduct(w) \/ DeleteRecipe(w)
    \/ ReadRecipe(w) \/ WriteRecipe(w) \/ CreateStuff(w) \/ ReadStuff(w) \/ DeleteStuff(w)

NextCatalogue == \/ \E w \in CatalogueStaff : ChiefStep(w) \/ ClerkStep(w)
                 \/ \E r \in Branches : ChangeCap(r)

SpecCatalogue == InitCatalogue /\ [][NextCatalogue]_catalogueVars

(* Requests that follow one another. *)
OneAtATime(w) == \A v \in CatalogueStaff \ {w} : cataloguePc[v] = "idle"

OneByOne == \/ \E w \in CatalogueStaff : OneAtATime(w) /\ (ChiefStep(w) \/ ClerkStep(w))
            \/ \E r \in Branches : ChangeCap(r)

-------------------------------------------------------------------------------
(* The live products of a restaurant that came through the form of its     *)
(* manager and staff exceed the most its cap has been by at most one for   *)
(* every further handler that creates at the same time ('two concurrent    *)
(* creates could land at cap+1'): deletions, moves and menu files give no  *)
(* place twice.                                                            *)
FormProducts(r) == {p \in ProductsOf(r) : product[p].via = "form"}

WithinCapPlusRacers ==
    \A r \in Branches : Cardinality(FormProducts(r)) <= branch[r].granted + Cardinality(Clerks) - 1

(* "The product cap in force right now. 0 means 'cannot create anything'"  *)
(* (subscription-state.ts:135): where no subscription ever allowed a       *)
(* product, the form and the menu file have created none.                  *)
NothingWithoutCap ==
    \A r \in Branches : branch[r].granted = 0 =>
        \A p \in ProductsOf(r) : product[p].via \notin {"form", "file"}

(* Where requests follow one another, nothing live refers to anything      *)
(* deleted: a live restaurant has an owner who is not deleted; a live      *)
(* product a live category, and a live restaurant unless a menu file made  *)
(* it, which looks no restaurant up; the live recipe of a product that was *)
(* never moved a live product and live ingredients.                        *)
AtRest == \A w \in CatalogueStaff : cataloguePc[w] = "idle"

ReferencesAreLive ==
    AtRest =>
        /\ \A r \in Live(branch) : branch[r].owner \in People /\ ~person[branch[r].owner].deleted
        /\ \A p \in Live(product) : /\ product[p].section \in Live(section)
                                    /\ product[p].via # "file" => product[p].of \in Live(branch)
        /\ \A p \in ProductIds : recipe[p] # NoRecipe /\ product[p].via # "move" =>
              p \in Live(product) /\ recipe[p].uses \subseteq Live(stuff)

(* 'Cannot delete ingredient because it is currently used in one or more   *)
(* active recipes' (ingredients.service.ts:263): the recipe of a live      *)
(* product uses no deleted ingredient.                                     *)
UsedIngredientStays ==
    AtRest => \A p \in Live(product) : recipe[p].uses \subseteq Live(stuff)
===============================================================================
