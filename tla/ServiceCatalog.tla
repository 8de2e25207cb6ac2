--------------------------- MODULE ServiceCatalog ---------------------------
(***************************************************************************)
(* The services customers order, as administrators create, update and       *)
(* remove them (ServicesService) while orders are placed on them.  Every    *)
(* handler is one transaction: its writes show when it commits, its reads   *)
(* see what others have committed, and a statement waits for the row locks  *)
(* of the transactions that wrote before.  A transaction is split where it  *)
(* reads what another may change or waits for another.                      *)
(***************************************************************************)
EXTENDS Integers

CONSTANTS
  Workers,  \* slots for requests under way
  MaxId,    \* bound: services created in this instance
  Images,   \* rows of ServiceImages created in this instance
  Names,    \* service names, as generateSlug leaves them
  None,     \* no row
  Unused,   \* an image row not inserted yet
  Deleted   \* an image row deleted

ASSUME CatalogAssumption ==
  /\ MaxId \in Nat
  /\ None \notin 1..MaxId /\ Unused \notin 1..MaxId /\ Deleted \notin 1..MaxId
  /\ None \notin [slug : Names \X Nat, active : BOOLEAN]

VARIABLES
  service,  \* the Services row of each id, None without one
  image,    \* ServiceImages.service_id of each row: see ImageStates
  refs,     \* the rows that refer to each service: order details, warranties
  nextId,   \* the sequence behind Services.id; a rollback does not return it
  req       \* the request of each slot

vars == <<service, image, refs, nextId, req>>

Ids == 1..MaxId

(* `${generateSlug(name)}-${id}`; a slug has no hyphen after the last one,  *)
(* so the pair is as good as the string.                                    *)
Slugs == Names \X (Ids \cup {0})
ImageStates == Ids \cup {Unused, Deleted}

Idle == [op |-> "idle"]

(* drop: the images to delete; add: the images to insert. *)
Requests ==
  {Idle}
  \cup [op : {"create"}, at : {"insert"}, id : {None}, name : Names,
        active : BOOLEAN, add : SUBSET Images]
  \cup [op : {"create"}, at : {"slug"}, id : Ids, name : Names,
        active : BOOLEAN, add : SUBSET Images]
  \cup [op : {"update"}, at : {"row", "images"}, id : Ids,
        active : BOOLEAN, drop : SUBSET Images, add : SUBSET Images]
  \cup [op : {"remove"}, at : {"images", "delete"}, id : Ids,
        drop : SUBSET Images]
  \cup [op : {"order"}, at : {"insert"}, id : Ids]

TypeOK ==
  /\ service \in [Ids -> [slug : Slugs, active : BOOLEAN] \cup {None}]
  /\ image \in [Images -> ImageStates]
  /\ refs \in [Ids -> SUBSET {"detail", "warranty"}]
  /\ nextId \in 1..(MaxId + 1)
  /\ req \in [Workers -> Requests]

At(w, op, at) == req[w] # Idle /\ req[w].op = op /\ req[w].at = at
ImagesOf(s) == {i \in Images : image[i] = s}

-----------------------------------------------------------------------------
(* Faulty variants *)

HoldsAtOnce(v, s) == req[v] # Idle /\ req[v].op = "update" /\ req[v].id = s
DeletesAtOnce(I) == image' = [i \in Images |-> IF i \in I THEN Deleted ELSE image[i]]
SlugLess(n, active, id) == [slug |-> n, active |-> active]

-----------------------------------------------------------------------------
SlugOf(n, id) == <<n, id>>
NewService(n, active, id) == [slug |-> SlugOf(n, id), active |-> active]

(* remove: the rows that forbid it. *)
InUse(s) == refs[s] # {}

(* findBySlug; the unique index keeps it at one. *)
FoundBySlug(slug) == {s \in Ids : service[s] # None /\ service[s].slug = slug}

(* remove deletes images on the connection of its transaction: nothing      *)
(* shows before the commit.                                                 *)
DeleteImages(I) == UNCHANGED image

(* createServiceOrder: the service exists and is active. *)
Orderable(s) == service[s] # None /\ service[s].active

(* The foreign keys that refer to Services, checked when a row is deleted   *)
(* in a transaction that has deleted the images in drop.                    *)
Referenced(s, drop) == refs[s] # {} \/ ~(ImagesOf(s) \subseteq drop)

(* What the transactions under way have locked: update its service, from    *)
(* its first statement to the end, remove the images it has deleted, create *)
(* the empty slug, which is unique, until the row has its own.              *)
HoldsService(v, s) == At(v, "update", "images") /\ req[v].id = s
HoldsImages(v, I) == At(v, "remove", "delete") /\ req[v].drop \cap I # {}
HoldsEmptySlug(v) == At(v, "create", "slug")

(* The next statement of w needs what v holds. *)
WaitsFor(w, v) ==
  /\ v # w
  /\ \/ At(w, "create", "insert") /\ HoldsEmptySlug(v)
     \/ At(w, "update", "row") /\ HoldsService(v, req[w].id)
     \/ At(w, "update", "images") /\ HoldsImages(v, req[w].drop)
     \/ At(w, "remove", "images") /\ HoldsImages(v, ImagesOf(req[w].id))
     \/ At(w, "remove", "delete") /\ HoldsService(v, req[w].id)

Waits(w) == \E v \in Workers : WaitsFor(w, v)

Fresh == {i \in Images : image[i] = Unused /\ ~\E v \in Workers :
            req[v] # Idle /\ req[v].op \in {"create", "update"} /\ i \in req[v].add}

Continue(w, request) == req' = [req EXCEPT ![w] = request]

Commit(w) == Continue(w, Idle)

(* An exception: the transaction, if one is open, is rolled back. *)
Throw(w) == Continue(w, Idle)

-----------------------------------------------------------------------------
Init ==
  /\ service = [s \in Ids |-> None] /\ image = [i \in Images |-> Unused]
  /\ refs = [s \in Ids |-> {}] /\ nextId = 1
  /\ req = [w \in Workers |-> Idle]

(* POST services, of a category that exists. *)
Create(w, n, active, add) ==
  /\ req[w] = Idle
  /\ Continue(w, [op |-> "create", at |-> "insert", id |-> None, name |-> n,
                  active |-> active, add |-> add])
  /\ UNCHANGED <<service, image, refs, nextId>>

InsertService(w) ==
  /\ At(w, "create", "insert") /\ ~Waits(w)
  /\ nextId <= MaxId
  /\ nextId' = nextId + 1
  /\ Continue(w, [req[w] EXCEPT !.at = "slug", !.id = nextId])
  /\ UNCHANGED <<service, image, refs>>

SetSlug(w) ==
  LET r == req[w]
      row == NewService(r.name, r.active, r.id) IN
  /\ At(w, "create", "slug")
  /\ IF FoundBySlug(row.slug) # {}
     THEN Throw(w) /\ UNCHANGED <<service, image>>
     ELSE /\ service' = [service EXCEPT ![r.id] = row]
          /\ image' = [i \in Images |-> IF i \in r.add THEN r.id ELSE image[i]]
          /\ Commit(w)
  /\ UNCHANGED <<refs, nextId>>

(* PATCH services/:id *)
Update(w, s, active, drop, add) ==
  /\ req[w] = Idle
  /\ Continue(w, [op |-> "update", at |-> "row", id |-> s, active |-> active,
                  drop |-> drop, add |-> add])
  /\ UNCHANGED <<service, image, refs, nextId>>

(* It throws when the service, or the category it moves to, does not exist. *)
UpdateRow(w) ==
  LET r == req[w] IN
  /\ At(w, "update", "row") /\ ~Waits(w)
  /\ \/ service[r.id] # None /\ Continue(w, [r EXCEPT !.at = "images"])
     \/ Throw(w)
  /\ UNCHANGED <<service, image, refs, nextId>>

(* The images go by their id, whichever service shows them. *)
UpdateImages(w) ==
  LET r == req[w] IN
  /\ At(w, "update", "images") /\ ~Waits(w)
  /\ service' = [service EXCEPT ![r.id].active = r.active]
  /\ image' = [i \in Images |->
                 IF i \in r.add THEN r.id
                 ELSE IF i \in r.drop /\ image[i] \in Ids THEN Deleted
                 ELSE image[i]]
  /\ Commit(w)
  /\ UNCHANGED <<refs, nextId>>

(* DELETE services/:id, of a service that exists and is not in use. *)
Remove(w, s) ==
  /\ req[w] = Idle
  /\ service[s] # None /\ ~InUse(s)
  /\ Continue(w, [op |-> "remove", at |-> IF ImagesOf(s) # {} THEN "images" ELSE "delete",
                  id |-> s, drop |-> {}])
  /\ UNCHANGED <<service, image, refs, nextId>>

RemoveImages(w) ==
  LET r == req[w] IN
  /\ At(w, "remove", "images") /\ ~Waits(w)
  /\ Continue(w, [r EXCEPT !.at = "delete", !.drop = ImagesOf(r.id)])
  /\ DeleteImages(ImagesOf(r.id))
  /\ UNCHANGED <<service, refs, nextId>>

RemoveService(w) ==
  LET r == req[w] IN
  /\ At(w, "remove", "delete") /\ ~Waits(w)
  /\ IF service[r.id] = None \/ Referenced(r.id, r.drop)
     THEN Throw(w) /\ UNCHANGED <<service, image>>
     ELSE /\ service' = [service EXCEPT ![r.id] = None]
          /\ image' = [i \in Images |-> IF image[i] = r.id THEN Deleted ELSE image[i]]
          /\ Commit(w)
  /\ UNCHANGED <<refs, nextId>>

(* createServiceOrder, as far as it touches the catalog. *)
PlaceOrder(w, s) ==
  /\ req[w] = Idle
  /\ Orderable(s)
  /\ Continue(w, [op |-> "order", at |-> "insert", id |-> s])
  /\ UNCHANGED <<service, image, refs, nextId>>

InsertDetail(w) ==
  LET r == req[w] IN
  /\ At(w, "order", "insert")
  /\ IF service[r.id] # None
     THEN refs' = [refs EXCEPT ![r.id] = @ \cup {"detail"}] /\ Commit(w)
     ELSE UNCHANGED refs /\ Throw(w)
  /\ UNCHANGED <<service, image, nextId>>

(* completeRepair inserts a warranty with the id of the order where the     *)
(* service's belongs, so any service may get one.                           *)
InsertWarranty(s) ==
  /\ service[s] # None /\ "warranty" \notin refs[s]
  /\ refs' = [refs EXCEPT ![s] = @ \cup {"warranty"}]
  /\ UNCHANGED <<service, image, nextId, req>>

(* The process dies, or the database gives up the transaction: its timeout, *)
(* or the victim of a deadlock.                                             *)
Fail(w) ==
  /\ req[w] # Idle
  /\ Throw(w)
  /\ UNCHANGED <<service, image, refs, nextId>>

-----------------------------------------------------------------------------
RequestStep(w) ==
  \/ InsertService(w) \/ SetSlug(w) \/ UpdateRow(w) \/ UpdateImages(w)
  \/ RemoveImages(w) \/ RemoveService(w) \/ InsertDetail(w)

Begin(w) ==
  \/ \E active \in BOOLEAN, add \in SUBSET Fresh :
       \/ \E n \in Names : Create(w, n, active, add)
       \/ \E s \in Ids, drop \in SUBSET {i \in Images : image[i] \in Ids} :
            Update(w, s, active, drop, add)
  \/ \E s \in Ids : Remove(w, s) \/ PlaceOrder(w, s)

Next ==
  \/ \E w \in Workers : Begin(w) \/ RequestStep(w) \/ Fail(w)
  \/ \E s \in Ids : InsertWarranty(s)

Spec == Init /\ [][Next]_vars

-----------------------------------------------------------------------------
(* Properties *)

(* Transactions on the catalog wait for each other in a circle only when an *)
(* update lists an image of a service whose removal has deleted it and      *)
(* waits: update writes the service first and the images after, remove the  *)
(* other way round (services.service.ts:123-145 and 237-246).  Creations,   *)
(* whatever they wait for, are in no circle.                                *)
DeadlocksOverImages ==
  \A W \in (SUBSET Workers) \ {{}} : (\A w \in W : \E v \in W : WaitsFor(w, v)) =>
    \E v, w \in W :
      /\ At(v, "update", "images") /\ At(w, "remove", "delete")
      /\ \E i \in req[v].drop \cap req[w].drop : image[i] = req[w].id

(* A removal that the foreign keys or a failure stop has deleted nothing,   *)
(* whatever is updated beside it: images go with their service, or by an    *)
(* update that lists them and commits.                                      *)
RemovalIsWhole ==
  [][\A i \in Images : image[i] \in Ids /\ image'[i] = Deleted =>
       \/ service'[image[i]] = None
       \/ \E w \in Workers : At(w, "update", "images") /\ i \in req[w].drop /\ req'[w] = Idle]_vars
=============================================================================
