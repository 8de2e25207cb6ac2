------------------------ MODULE ServiceCatalog_proofs ------------------------
(***************************************************************************)
(* The catalog for every number of services, images and slots.  The        *)
(* argument rests on the row locks: a service an update has found cannot be *)
(* removed before it commits, so the row it writes is there; and an image a *)
(* removal has deleted is no other transaction's before the removal ends.   *)
(***************************************************************************)
EXTENDS ServiceCatalog, TLAPS

(* An update that holds the lock of a service still finds it. *)
UpdatedIsThere == \A w \in Workers : At(w, "update", "images") => service[req[w].id] # None

(* The images a removal has deleted are its service's, and its alone. *)
Removing(w) == At(w, "remove", "delete")
RemovedAreOwn ==
  \A w \in Workers : Removing(w) => \A i \in req[w].drop : image[i] = req[w].id
RemovedApart ==
  \A v, w \in Workers : v # w /\ Removing(v) /\ Removing(w) =>
    req[v].drop \cap req[w].drop = {}

(* The images a transaction inserts are not there before, nor another's. *)
Adding(w) == req[w] # Idle /\ req[w].op \in {"create", "update"}
AddedAreNew ==
  \A w \in Workers : Adding(w) => \A i \in req[w].add : image[i] = Unused
AddedApart ==
  \A v, w \in Workers : v # w /\ Adding(v) /\ Adding(w) =>
    req[v].add \cap req[w].add = {}

ImagesApart == RemovedAreOwn /\ RemovedApart /\ AddedAreNew /\ AddedApart

Inv == TypeOK /\ UpdatedIsThere /\ ImagesApart

-----------------------------------------------------------------------------
(* What a request at a step carries. *)
LEMMA Carried ==
  ASSUME TypeOK, NEW w \in Workers
  PROVE  /\ req[w] \in Requests
         /\ At(w, "create", "insert") =>
              req[w] \in [op : {"create"}, at : {"insert"}, id : {None}, name : Names,
                          active : BOOLEAN, add : SUBSET Images]
         /\ At(w, "create", "slug") =>
              req[w] \in [op : {"create"}, at : {"slug"}, id : Ids, name : Names,
                          active : BOOLEAN, add : SUBSET Images]
         /\ req[w] # Idle /\ req[w].op = "update" =>
              req[w] \in [op : {"update"}, at : {"row", "images"}, id : Ids,
                          active : BOOLEAN, drop : SUBSET Images, add : SUBSET Images]
         /\ req[w] # Idle /\ req[w].op = "remove" =>
              req[w] \in [op : {"remove"}, at : {"images", "delete"}, id : Ids, drop : SUBSET Images]
         /\ req[w] # Idle /\ req[w].op = "order" =>
              req[w] \in [op : {"order"}, at : {"insert"}, id : Ids]
BY DEF TypeOK, Requests, At

LEMMA AddIsImages ==
  ASSUME TypeOK
  PROVE  /\ \A w \in Workers : Adding(w) => req[w].add \subseteq Images
         /\ \A w \in Workers : Removing(w) => req[w].drop \subseteq Images /\ req[w].id \in Ids
BY DEF TypeOK, Requests, Adding, Removing, At

(* A step that changes the request of one slot only, no service and no      *)
(* image.                                                                   *)
LEMMA ContinueKeeps ==
  ASSUME Inv, NEW w \in Workers, NEW r \in Requests, Continue(w, r),
         r # Idle /\ r.op = "update" /\ r.at = "images" => service[r.id] # None,
         r # Idle /\ r.op = "remove" /\ r.at = "delete" =>
           /\ \A i \in r.drop : image[i] = r.id
           /\ \A v \in Workers \ {w} : Removing(v) => req[v].drop \cap r.drop = {},
         r # Idle /\ r.op \in {"create", "update"} =>
           /\ \A i \in r.add : image[i] = Unused
           /\ \A v \in Workers \ {w} : Adding(v) => req[v].add \cap r.add = {},
         refs' \in [Ids -> SUBSET {"detail", "warranty"}], nextId' \in 1..(MaxId + 1),
         UNCHANGED <<service, image>>
  PROVE  Inv'
<1>1. \A v \in Workers : req'[v] = IF v = w THEN r ELSE req[v]
  BY DEF Continue, Inv, TypeOK
<1>2. req' \in [Workers -> Requests]
  BY DEF Continue, Inv, TypeOK
<1>3. TypeOK'
  BY <1>2 DEF Inv, TypeOK
<1>4. UpdatedIsThere'
  BY <1>1 DEF Inv, UpdatedIsThere, At
<1>5. RemovedAreOwn' /\ RemovedApart'
  <2>1. \A v \in Workers : Removing(v)' <=> IF v = w THEN r # Idle /\ r.op = "remove" /\ r.at = "delete"
                                            ELSE Removing(v)
    BY <1>1 DEF Removing, At
  <2>2. RemovedAreOwn /\ RemovedApart
    BY DEF Inv, ImagesApart
  <2> QED BY <1>1, <2>1, <2>2 DEF RemovedAreOwn, RemovedApart
<1>6. AddedAreNew' /\ AddedApart'
  <2>1. \A v \in Workers : Adding(v)' <=> IF v = w THEN r # Idle /\ r.op \in {"create", "update"}
                                          ELSE Adding(v)
    BY <1>1 DEF Adding
  <2>2. AddedAreNew /\ AddedApart
    BY DEF Inv, ImagesApart
  <2> QED BY <1>1, <2>1, <2>2 DEF AddedAreNew, AddedApart
<1> QED BY <1>3, <1>4, <1>5, <1>6 DEF Inv, ImagesApart

(* A request that ends. *)
LEMMA EndKeeps ==
  ASSUME Inv, NEW w \in Workers, Continue(w, Idle),
         refs' \in [Ids -> SUBSET {"detail", "warranty"}], nextId' = nextId,
         UNCHANGED <<service, image>>
  PROVE  Inv'
<1>1. Idle \in Requests
  BY DEF Requests
<1> QED BY <1>1, ContinueKeeps DEF Idle, Inv, TypeOK

(* A request that ends with writes, none to what the others hold. *)
LEMMA CommitKeeps ==
  ASSUME Inv, NEW w \in Workers, Continue(w, Idle),
         service' \in [Ids -> [slug : Slugs, active : BOOLEAN] \cup {None}],
         image' \in [Images -> ImageStates],
         \A v \in Workers \ {w} : At(v, "update", "images") => service'[req[v].id] # None,
         \A v \in Workers \ {w} : Removing(v) => \A i \in req[v].drop : image'[i] = image[i],
         \A v \in Workers \ {w} : Adding(v) => \A i \in req[v].add : image'[i] = image[i],
         UNCHANGED <<refs, nextId>>
  PROVE  Inv'
<1>1. \A v \in Workers : req'[v] = IF v = w THEN Idle ELSE req[v]
  BY DEF Continue, Inv, TypeOK
<1>2. req' \in [Workers -> Requests]
  BY DEF Continue, Inv, TypeOK, Requests
<1>3. TypeOK'
  BY <1>2 DEF Inv, TypeOK
<1>4. UpdatedIsThere'
  BY <1>1 DEF UpdatedIsThere, At
<1>5. ASSUME NEW v \in Workers
      PROVE  /\ Removing(v)' => v # w /\ Removing(v) /\ req'[v] = req[v]
             /\ Adding(v)' => v # w /\ Adding(v) /\ req'[v] = req[v]
  <2>1. CASE v = w
    BY <1>1, <2>1 DEF Removing, Adding, At
  <2>2. CASE v # w
    <3>1. req'[v] = req[v]
      BY <1>1, <2>2
    <3> QED BY <2>2, <3>1 DEF Removing, Adding, At
  <2> QED BY <2>1, <2>2
<1>6. RemovedAreOwn' /\ RemovedApart'
  BY <1>5 DEF Inv, ImagesApart, RemovedAreOwn, RemovedApart
<1>7. AddedAreNew' /\ AddedApart'
  BY <1>5 DEF Inv, ImagesApart, AddedAreNew, AddedApart
<1> QED BY <1>3, <1>4, <1>6, <1>7 DEF Inv, ImagesApart

LEMMA BeginKeeps ==
  ASSUME Inv, NEW w \in Workers, Begin(w)
  PROVE  Inv'
<1>1. refs \in [Ids -> SUBSET {"detail", "warranty"}] /\ nextId \in 1..(MaxId + 1)
  BY DEF Inv, TypeOK
<1>2. ASSUME NEW r \in Requests, Continue(w, r), UNCHANGED <<service, image, refs, nextId>>,
             \/ r.op \in {"create", "update"} /\ r.at # "images" /\ r.add \subseteq Fresh
             \/ r.op = "remove" /\ r.drop = {}
             \/ r.op = "order"
      PROVE  Inv'
  <2>1. \A i \in Fresh : image[i] = Unused /\ \A v \in Workers : Adding(v) => i \notin req[v].add
    BY DEF Fresh, Adding
  <2> QED BY <1>1, <1>2, <2>1, ContinueKeeps
<1>3. ASSUME NEW active \in BOOLEAN, NEW add \in SUBSET Fresh, NEW n \in Names,
             Create(w, n, active, add)
      PROVE  Inv'
  <2>1. [op |-> "create", at |-> "insert", id |-> None, name |-> n,
         active |-> active, add |-> add] \in Requests
    BY DEF Requests, Fresh
  <2> QED BY <1>2, <1>3, <2>1 DEF Create
<1>4. ASSUME NEW active \in BOOLEAN, NEW add \in SUBSET Fresh, NEW s \in Ids,
             NEW drop \in SUBSET {i \in Images : image[i] \in Ids}, Update(w, s, active, drop, add)
      PROVE  Inv'
  <2>1. [op |-> "update", at |-> "row", id |-> s, active |-> active,
         drop |-> drop, add |-> add] \in Requests
    BY DEF Requests, Fresh
  <2> QED BY <1>2, <1>4, <2>1 DEF Update
<1>5. ASSUME NEW s \in Ids, Remove(w, s)
      PROVE  Inv'
  <2>1. [op |-> "remove", at |-> IF ImagesOf(s) # {} THEN "images" ELSE "delete",
         id |-> s, drop |-> {}] \in Requests
    BY DEF Requests
  <2> QED BY <1>2, <1>5, <2>1 DEF Remove
<1>6. ASSUME NEW s \in Ids, PlaceOrder(w, s)
      PROVE  Inv'
  <2>1. [op |-> "order", at |-> "insert", id |-> s] \in Requests
    BY DEF Requests
  <2> QED BY <1>2, <1>6, <2>1 DEF PlaceOrder
<1> QED BY <1>3, <1>4, <1>5, <1>6 DEF Begin

LEMMA InitInv == Init => Inv
<1> SUFFICES ASSUME Init PROVE Inv
  OBVIOUS
<1>1. \A w \in Workers : req[w] = Idle
  BY DEF Init
<1>2. TypeOK
  BY CatalogAssumption DEF Init, TypeOK, ImageStates, Requests, Ids
<1> QED BY <1>1, <1>2 DEF Inv, UpdatedIsThere, ImagesApart, RemovedAreOwn, RemovedApart,
                          AddedAreNew, AddedApart, Removing, Adding, At

LEMMA RequestKeeps ==
  ASSUME Inv, NEW w \in Workers, RequestStep(w)
  PROVE  Inv'
<1> USE DEF Commit, Throw
<1>0. /\ RemovedAreOwn /\ RemovedApart /\ AddedAreNew /\ AddedApart
      /\ refs \in [Ids -> SUBSET {"detail", "warranty"}] /\ nextId \in 1..(MaxId + 1)
      /\ service \in [Ids -> [slug : Slugs, active : BOOLEAN] \cup {None}]
      /\ image \in [Images -> ImageStates]
  BY DEF Inv, TypeOK, ImagesApart
<1>1. CASE InsertService(w)
  <2> DEFINE r == [req[w] EXCEPT !.at = "slug", !.id = nextId]
  <2>1. nextId \in Ids /\ nextId + 1 \in 1..(MaxId + 1)
    BY <1>0, <1>1, CatalogAssumption DEF InsertService, Ids
  <2>2. r \in Requests /\ r.op = "create"
    BY <1>1, <2>1, Carried DEF InsertService, Inv, Requests
  <2>4. Adding(w) /\ r.add = req[w].add
    BY <1>1, Carried DEF InsertService, Adding, At, Inv
  <2>5. /\ \A i \in r.add : image[i] = Unused
        /\ \A v \in Workers \ {w} : Adding(v) => req[v].add \cap r.add = {}
    BY <1>0, <2>4 DEF AddedAreNew, AddedApart
  <2>3. Continue(w, r) /\ nextId' = nextId + 1 /\ UNCHANGED <<service, image, refs>>
    BY <1>1 DEF InsertService
  <2> HIDE DEF r
  <2> QED BY <1>0, <2>1, <2>2, <2>3, <2>5, ContinueKeeps
<1>2. CASE SetSlug(w)
  <2> DEFINE row == NewService(req[w].name, req[w].active, req[w].id)
  <2>1. req[w].id \in Ids /\ req[w].name \in Names /\ req[w].active \in BOOLEAN /\ req[w].add \subseteq Images
    BY <1>2, Carried DEF SetSlug, Inv
  <2>2. row \in [slug : Slugs, active : BOOLEAN] /\ row.slug = <<req[w].name, req[w].id>>
    BY <2>1 DEF NewService, SlugOf, Slugs
  <2>3. CASE FoundBySlug(row.slug) # {}
    BY <1>0, <1>2, <2>3, EndKeeps DEF SetSlug
  <2>4. CASE FoundBySlug(row.slug) = {}
    <3>1. /\ Continue(w, Idle) /\ UNCHANGED <<refs, nextId>>
          /\ service' = [service EXCEPT ![req[w].id] = row]
          /\ image' = [i \in Images |-> IF i \in req[w].add THEN req[w].id ELSE image[i]]
      BY <1>2, <2>4 DEF SetSlug
    <3>2. row # None
      <4>1. row \in [slug : Names \X Nat, active : BOOLEAN]
        BY <2>1, CatalogAssumption DEF NewService, SlugOf, Ids
      <4> QED BY <4>1, CatalogAssumption
    <3> HIDE DEF row
    <3>3. service' \in [Ids -> [slug : Slugs, active : BOOLEAN] \cup {None}]
      BY <1>0, <2>1, <2>2, <3>1
    <3>4. image' \in [Images -> ImageStates]
      BY <1>0, <2>1, <3>1 DEF ImageStates
    <3>5. Adding(w)
      BY <1>2 DEF SetSlug, Adding, At
    <3>7. ASSUME NEW i \in Images, image'[i] # image[i]
          PROVE  i \in req[w].add /\ image[i] = Unused
      BY <1>0, <2>1, <3>1, <3>5, <3>7 DEF AddedAreNew
    <3>8. \A v \in Workers \ {w} : Removing(v) => \A i \in req[v].drop : image'[i] = image[i]
      BY <1>0, <3>7, AddIsImages, CatalogAssumption DEF RemovedAreOwn, Ids, Inv
    <3>9. \A v \in Workers \ {w} : Adding(v) => \A i \in req[v].add : image'[i] = image[i]
      BY <1>0, <3>5, <3>7, AddIsImages DEF AddedApart, Inv
    <3>6. \A v \in Workers \ {w} : At(v, "update", "images") => service'[req[v].id] # None
      BY <1>0, <2>1, <3>1, <3>2 DEF Inv, UpdatedIsThere
    <3> QED BY <3>1, <3>3, <3>4, <3>6, <3>8, <3>9, CommitKeeps
  <2> QED BY <2>3, <2>4
<1>3. CASE UpdateRow(w)
  <2>1. req[w].id \in Ids /\ [req[w] EXCEPT !.at = "images"] \in Requests
    BY <1>3, Carried DEF UpdateRow, At, Inv, Requests
  <2>2. CASE Continue(w, Idle)
    BY <1>0, <1>3, <2>2, EndKeeps DEF UpdateRow
  <2>3. CASE service[req[w].id] # None /\ Continue(w, [req[w] EXCEPT !.at = "images"])
    <3> DEFINE r == [req[w] EXCEPT !.at = "images"]
    <3>1. r \in Requests /\ Continue(w, r) /\ service[r.id] # None
      BY <1>3, <2>1, <2>3, Carried DEF UpdateRow, At, Inv
    <3>2. Adding(w) /\ r.add = req[w].add /\ r.op = "update"
      BY <1>3, Carried DEF UpdateRow, Adding, At, Inv
    <3>3. /\ \A i \in r.add : image[i] = Unused
          /\ \A v \in Workers \ {w} : Adding(v) => req[v].add \cap r.add = {}
      BY <1>0, <3>2 DEF AddedAreNew, AddedApart
    <3> HIDE DEF r
    <3> QED BY <1>0, <1>3, <3>1, <3>2, <3>3, ContinueKeeps DEF UpdateRow
  <2> QED BY <1>3, <2>2, <2>3 DEF UpdateRow
<1>4. CASE UpdateImages(w)
  <2>1. /\ req[w].id \in Ids /\ req[w].active \in BOOLEAN /\ service[req[w].id] # None
    BY <1>4, Carried DEF UpdateImages, At, Inv, UpdatedIsThere
  <2>2. service[req[w].id] \in [slug : Slugs, active : BOOLEAN]
    BY <1>0, <2>1
  <2> DEFINE row == [service[req[w].id] EXCEPT !.active = req[w].active]
  <2>3. row \in [slug : Slugs, active : BOOLEAN]
    BY <2>1, <2>2
  <2>4. row # None
    <3>1. row \in [slug : Names \X Nat, active : BOOLEAN]
      BY <2>3, CatalogAssumption DEF Slugs, Ids
    <3> QED BY <3>1, CatalogAssumption
  <2>5. /\ Continue(w, Idle) /\ UNCHANGED <<refs, nextId>>
        /\ service' = [service EXCEPT ![req[w].id] = row]
        /\ image' \in [Images -> ImageStates]
    BY <1>0, <1>4, <2>1 DEF UpdateImages, ImageStates
  <2> HIDE DEF row
  <2>6. service' \in [Ids -> [slug : Slugs, active : BOOLEAN] \cup {None}]
    BY <1>0, <2>1, <2>3, <2>5
  <2>7. \A v \in Workers \ {w} : At(v, "update", "images") => service'[req[v].id] # None
    BY <1>0, <2>1, <2>4, <2>5 DEF Inv, UpdatedIsThere
  <2>8. Adding(w) /\ req[w].drop \subseteq Images /\ req[w].add \subseteq Images
    BY <1>4, Carried DEF UpdateImages, Adding, At, Inv
  <2>9. \A v \in Workers \ {w} : Removing(v) => req[v].drop \cap req[w].drop = {}
    BY <1>4 DEF UpdateImages, Waits, WaitsFor, HoldsImages, Removing
  <2>10. ASSUME NEW i \in Images, image'[i] # image[i]
         PROVE  \/ i \in req[w].add /\ image[i] = Unused
                \/ i \in req[w].drop /\ image[i] \in Ids
    BY <1>0, <1>4, <2>8, <2>10 DEF UpdateImages, AddedAreNew
  <2>11. \A v \in Workers \ {w} : Removing(v) => \A i \in req[v].drop : image'[i] = image[i]
    BY <1>0, <2>9, <2>10, AddIsImages, CatalogAssumption DEF RemovedAreOwn, Ids, Inv
  <2>12. \A v \in Workers \ {w} : Adding(v) => \A i \in req[v].add : image'[i] = image[i]
    BY <1>0, <2>8, <2>10, AddIsImages, CatalogAssumption DEF AddedApart, AddedAreNew, Ids, Inv
  <2> QED BY <2>5, <2>6, <2>7, <2>11, <2>12, CommitKeeps
<1>5. CASE RemoveImages(w)
  <2> DEFINE r == [req[w] EXCEPT !.at = "delete", !.drop = ImagesOf(req[w].id)]
  <2>1. r \in Requests /\ r.op = "remove"
    BY <1>5, Carried DEF RemoveImages, At, Inv, Requests, ImagesOf
  <2>2. Continue(w, r)
    BY <1>5 DEF RemoveImages
  <2>3. r.drop = ImagesOf(req[w].id) /\ r.id = req[w].id
    BY <1>5, Carried DEF RemoveImages, At, Inv
  <2>4. \A i \in r.drop : image[i] = r.id
    BY <2>3 DEF ImagesOf
  <2>5. \A v \in Workers \ {w} : Removing(v) => req[v].drop \cap r.drop = {}
    BY <1>5, <2>3 DEF RemoveImages, Waits, WaitsFor, HoldsImages, Removing
  <2> HIDE DEF r
  <2> QED BY <1>0, <1>5, <2>1, <2>2, <2>4, <2>5, ContinueKeeps DEF RemoveImages, DeleteImages
<1>6. CASE RemoveService(w)
  <2>1. req[w].id \in Ids
    BY <1>6, Carried DEF RemoveService, At, Inv
  <2>2. CASE service[req[w].id] = None \/ Referenced(req[w].id, req[w].drop)
    BY <1>0, <1>6, <2>2, EndKeeps DEF RemoveService
  <2>3. CASE ~(service[req[w].id] = None \/ Referenced(req[w].id, req[w].drop))
    <3>1. /\ Continue(w, Idle) /\ UNCHANGED <<refs, nextId>>
          /\ service' = [service EXCEPT ![req[w].id] = None]
          /\ image' \in [Images -> ImageStates]
      BY <1>0, <1>6, <2>3 DEF RemoveService, ImageStates
    <3>2. \A v \in Workers \ {w} : At(v, "update", "images") => service'[req[v].id] # None
      BY <1>0, <1>6, <2>1, <3>1 DEF RemoveService, Waits, WaitsFor, HoldsService, Inv, UpdatedIsThere
    <3>3. service' \in [Ids -> [slug : Slugs, active : BOOLEAN] \cup {None}]
      BY <1>0, <2>1, <3>1
    <3>4. Removing(w) /\ ImagesOf(req[w].id) \subseteq req[w].drop
      BY <1>6, <2>3 DEF RemoveService, Removing, Referenced
    <3>5. ASSUME NEW i \in Images, image'[i] # image[i]
          PROVE  i \in req[w].drop /\ image[i] \in Ids
      BY <1>0, <1>6, <2>1, <2>3, <3>4, <3>5 DEF RemoveService, ImagesOf
    <3>6. \A v \in Workers \ {w} : Removing(v) => \A i \in req[v].drop : image'[i] = image[i]
      BY <1>0, <3>4, <3>5, AddIsImages DEF RemovedApart, Inv
    <3>7. \A v \in Workers \ {w} : Adding(v) => \A i \in req[v].add : image'[i] = image[i]
      BY <1>0, <3>5, AddIsImages, CatalogAssumption DEF AddedAreNew, Ids, Inv
    <3> QED BY <3>1, <3>2, <3>3, <3>6, <3>7, CommitKeeps
  <2> QED BY <2>2, <2>3
<1>7. CASE InsertDetail(w)
  <2>1. refs' \in [Ids -> SUBSET {"detail", "warranty"}]
    BY <1>0, <1>7 DEF InsertDetail
  <2>2. Continue(w, Idle) /\ UNCHANGED <<service, image, nextId>>
    BY <1>7 DEF InsertDetail
  <2> QED BY <2>1, <2>2, EndKeeps
<1> QED BY <1>1, <1>2, <1>3, <1>4, <1>5, <1>6, <1>7 DEF RequestStep

LEMMA NextKeeps == Inv /\ [Next]_vars => Inv'
<1> SUFFICES ASSUME Inv, [Next]_vars PROVE Inv'
  OBVIOUS
<1>1. ASSUME NEW w \in Workers, Fail(w)
      PROVE  Inv'
  BY <1>1, EndKeeps DEF Fail, Throw, Inv, TypeOK
<1>2. ASSUME NEW s \in Ids, InsertWarranty(s)
      PROVE  Inv'
  <2>1. refs' \in [Ids -> SUBSET {"detail", "warranty"}]
    BY <1>2 DEF InsertWarranty, Inv, TypeOK
  <2> QED BY <1>2, <2>1 DEF InsertWarranty, Inv, TypeOK, UpdatedIsThere, ImagesApart, RemovedAreOwn, RemovedApart,
          AddedAreNew, AddedApart, Removing, Adding, At
<1>3. CASE UNCHANGED vars
  BY <1>3 DEF vars, Inv, TypeOK, UpdatedIsThere, ImagesApart, RemovedAreOwn, RemovedApart,
          AddedAreNew, AddedApart, Removing, Adding, At
<1> QED BY <1>1, <1>2, <1>3, BeginKeeps, RequestKeeps DEF Next

LEMMA Invariance == Spec => []Inv
BY InitInv, NextKeeps, PTL DEF Spec

-----------------------------------------------------------------------------
(* Rows, images, references and requests keep their types; an update never  *)
(* writes a service that has been removed under it.                         *)
THEOREM TypesKept == Spec => []TypeOK
<1>1. Inv => TypeOK
  BY DEF Inv
<1> QED BY <1>1, Invariance, PTL

(* In every circle of waiting transactions an update lists an image that a  *)
(* removal in the circle has deleted: update and remove lock the service    *)
(* and its images in opposite orders, and nothing else closes a circle.     *)
THEOREM DeadlocksNeedAnImage == Spec => []DeadlocksOverImages
<1>1. Inv => DeadlocksOverImages
  <2> SUFFICES ASSUME Inv, NEW W \in (SUBSET Workers) \ {{}}, \A w \in W : \E v \in W : WaitsFor(w, v)
               PROVE  \E v, w \in W :
                        /\ At(v, "update", "images") /\ At(w, "remove", "delete")
                        /\ \E i \in req[v].drop \cap req[w].drop : image[i] = req[w].id
    BY DEF DeadlocksOverImages
  <2>1. ASSUME NEW v \in W, At(v, "update", "images")
        PROVE  \E w \in W : /\ At(w, "remove", "delete")
                            /\ \E i \in req[v].drop \cap req[w].drop : image[i] = req[w].id
    <3>1. PICK w \in W : HoldsImages(w, req[v].drop)
      BY <2>1 DEF WaitsFor, At
    <3> QED BY <3>1 DEF HoldsImages, Inv, ImagesApart, RemovedAreOwn, Removing
  <2>2. \E v \in W : At(v, "update", "images")
    <3>1. \A w \in W : ~At(w, "create", "insert")
      BY DEF WaitsFor, HoldsEmptySlug, At
    <3>2. \A w \in W : At(w, "update", "row") \/ At(w, "remove", "delete") =>
            \E v \in W : At(v, "update", "images")
      BY DEF WaitsFor, HoldsService, At
    <3>3. \A w \in W : At(w, "remove", "images") => \E v \in W : At(v, "remove", "delete")
      BY DEF WaitsFor, HoldsImages, At
    <3>4. PICK w \in W : TRUE
      OBVIOUS
    <3> QED BY <3>1, <3>2, <3>3, <3>4 DEF WaitsFor
  <2> QED BY <2>1, <2>2
<1> QED BY <1>1, Invariance, PTL

(* Images go with their service or by an update that lists them and         *)
(* commits: remove, stopped by a foreign key or a failure, deletes none.    *)
THEOREM RemovalsAreWhole == Spec => RemovalIsWhole
<1> DEFINE Whole ==
      \A i \in Images : image[i] \in Ids /\ image'[i] = Deleted =>
        \/ service'[image[i]] = None
        \/ \E w \in Workers : At(w, "update", "images") /\ i \in req[w].drop /\ req'[w] = Idle
<1>1. Inv /\ [Next]_vars => [Whole]_vars
  <2> SUFFICES ASSUME Inv, Next, NEW i \in Images, image[i] \in Ids, image'[i] = Deleted
               PROVE  \/ service'[image[i]] = None
                      \/ \E w \in Workers : At(w, "update", "images") /\ i \in req[w].drop /\ req'[w] = Idle
    OBVIOUS
  <2>1. Deleted \notin Ids /\ image'[i] # image[i]
    BY CatalogAssumption DEF Ids
  <2>2. PICK w \in Workers : SetSlug(w) \/ UpdateImages(w) \/ RemoveService(w)
    BY <2>1 DEF Next, Begin, Create, Update, Remove, PlaceOrder, RequestStep, InsertService,
                UpdateRow, RemoveImages, DeleteImages, InsertDetail, Fail, InsertWarranty
  <2>3. CASE SetSlug(w)
    <3>1. req[w].id \in Ids
      BY <2>3, Carried DEF SetSlug, Inv
    <3> QED BY <2>1, <2>3, <3>1 DEF SetSlug
  <2>4. CASE UpdateImages(w)
    <3>1. req[w].id \in Ids /\ At(w, "update", "images")
      BY <2>4, Carried DEF UpdateImages, At, Inv
    <3>2. req'[w] = Idle
      BY <2>4 DEF UpdateImages, Commit, Continue, Inv, TypeOK
    <3> QED BY <2>1, <2>4, <3>1, <3>2 DEF UpdateImages
  <2>5. CASE RemoveService(w)
    BY <2>1, <2>5 DEF RemoveService, Inv, TypeOK
  <2> QED BY <2>2, <2>3, <2>4, <2>5
<1> QED BY <1>1, Invariance, PTL DEF Spec, RemovalIsWhole
=============================================================================
