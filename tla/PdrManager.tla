----------------------------- MODULE PdrManager -----------------------------
(***************************************************************************)
(* What pldmd makes of the records of a terminus: the tree of its entities *)
(* and the D-Bus objects of the entities, sensors, effecters and FRU       *)
(* record sets (pdr_manager.cpp).  pdrManagerInit looks at the repository  *)
(* once for every type of record, in a fixed order of the types; records   *)
(* of one type are in the order the repository has them in, which is any.  *)
(*                                                                         *)
(* An entity is a record with the id of the container it is in.  A content *)
(* that is not well formed is one its parser discards, or that the         *)
(* assertions of libpldm_intel (pdr.c) fail on for an association.         *)
(***************************************************************************)
EXTENDS PdrRepository

CONSTANTS Garbage \* the container ids an uninitialized _containerID may hold

\* The entities of an association are a list.
ASSUME ContainedAssumption ==
  \A r \in Repositories : \A h \in DOMAIN r :
    r[h].type = "association" => r[h].contained \in Seq(Range(r[h].contained))

VARIABLES
  _entityAuxNames,         \* entity -> its name
  entityAssociationNodes,  \* the associations: a container and what is in it
  _entityAssociationTree,  \* the nodes of the tree, parents before children
  _systemHierarchyIntf,    \* entity -> the entities on its path
  auxNames,                \* _sensorAuxNames and _effecterAuxNames
  cached,                  \* the sensors and effecters whose record is kept
  objects                  \* _sensorIntf, _effecterIntf and _fruRecordSetIntf

parseVars == <<_entityAuxNames, entityAssociationNodes, _entityAssociationTree,
               _systemHierarchyIntf, auxNames, cached, objects>>
vars == <<pdrVars, parseVars>>

Emplace(f, k, v) == IF k \in DOMAIN f THEN f ELSE [x \in DOMAIN f \cup {k} |-> IF x = k THEN v ELSE f[x]]
Assign(f, k, v)  == [x \in DOMAIN f \cup {k} |-> IF x = k THEN v ELSE f[x]]

Content(r) == contents[r[1].handle]

\* A well formed record of the type
IsOf(r, type) == Content(r).type = type /\ Content(r).wellFormed

\* What a becomes as one element of s after the other changes it: a fold, as a
\* recursive function, that evaluates every result once
Through(Op(_, _), a, s) ==
  LET f[i \in 0 .. Len(s)] ==
        IF i = 0 THEN a ELSE CHOOSE y \in {Op(z, s[i]) : z \in {f[i - 1]}} : TRUE
  IN  f[Len(s)]

\* One record of the type after the other changes a, in the order of the
\* repository.
ParseAll(type, Parse(_, _), a) ==
  Through(LAMBDA x, r : IF IsOf(r, type) THEN Parse(x, Content(r)) ELSE x, a, _pdrRepo)

-----------------------------------------------------------------------------
(***************************************************************************)
(* Names of entities.  Where several instances share a record, every       *)
(* numbered name is entered for the first of them.                         *)
(***************************************************************************)
\* The loop over the shared instances ends when its counter, of 16 bits, is past
\* their sum, which has more bits.
Overruns(c) == c.shared # 0 /\ c.instance + c.shared >= 2^16 - 1

parseEntityAuxNamesPDR(p, c) ==
  IF p.endless THEN p
  ELSE [names |-> Emplace(p.names, c.entity, IF c.shared = 0 THEN <<c.name>> ELSE <<c.name, 0>>),
        endless |-> Overruns(c)]

ParseNames ==
  /\ pc = Constructed
  /\ LET parsed == ParseAll("entityName", parseEntityAuxNamesPDR,
                            [names |-> _entityAuxNames, endless |-> FALSE])
     IN  /\ _entityAuxNames' = parsed.names
         /\ pc' = IF parsed.endless THEN "looping" ELSE "associations"
  /\ UNCHANGED <<deviceVars, readVars, entityAssociationNodes, _entityAssociationTree,
                 _systemHierarchyIntf, auxNames, cached, objects>>

\* One more round of that loop: the name is there already.
LoopOnName == pc = "looping" /\ UNCHANGED vars

-----------------------------------------------------------------------------
(***************************************************************************)
(* The tree.                                                               *)
(***************************************************************************)
\* mergeContainedEntities with the association of the same container, or a
\* new one
parseEntityAssociationPDR(associations, c) ==
  IF \E i \in DOMAIN associations : associations[i].entity = c.entity
  THEN [i \in DOMAIN associations |->
          IF associations[i].entity = c.entity
          THEN [associations[i] EXCEPT !.contained = @ \o c.contained] ELSE associations[i]]
  ELSE Append(associations, [entity |-> c.entity, contained |-> c.contained])

\* The way from the root to every node
Ways(nodes) ==
  LET way[i \in DOMAIN nodes] ==
        IF nodes[i].parent = 0 THEN <<i>> ELSE Append(way[nodes[i].parent], i)
  IN  way

Below(nodes, at) == {i \in DOMAIN nodes : at \in Range(Ways(nodes)[i])}

\* Nodes in the order of a breadth first search, and of a depth first search
Earlier(v, w) == \E k \in DOMAIN v \cap DOMAIN w : SubSeq(v, 1, k - 1) = SubSeq(w, 1, k - 1) /\ v[k] < w[k]
Wider(v, w)   == Len(v) < Len(w) \/ (Len(v) = Len(w) /\ Earlier(v, w))
Deeper(v, w)  == IsStrictPrefix(v, w) \/ Earlier(v, w)

FirstWith(nodes, e, Before(_, _)) ==
  LET way == Ways(nodes)
      all == {i \in DOMAIN nodes : nodes[i].entity = e}
  IN  CHOOSE i \in all : \A j \in all \ {i} : Before(way[i], way[j])

HasEntity(nodes, e, at) == \E i \in Below(nodes, at) : nodes[i].entity = e

\* What is in the subtree of the node already is not added again.
insertToAssociationTree(nodes, at, contained) ==
  Through(LAMBDA ns, e :
             IF HasEntity(ns, e, at) THEN ns ELSE Append(ns, [entity |-> e, parent |-> at]),
           nodes, contained)

\* The tree with entity e as its root, unless it has one
Rooted(tree, e) == IF tree = <<>> THEN <<[entity |-> e, parent |-> 0]>> ELSE tree

\* The associations whose container is in the container of the terminus are
\* one, with the first of these containers as the root; the others are left.
extractRootNode(associations, c) ==
  Through(LAMBDA p, a :
             IF a.entity.container = c
             THEN [p EXCEPT !.tree = insertToAssociationTree(Rooted(@, a.entity), 1, a.contained)]
             ELSE [p EXCEPT !.left = Append(@, a)],
           [tree |-> <<>>, left |-> <<>>], associations)

Malformed(r) == Content(r).type = "association" /\ ~ Content(r).wellFormed

\* pldm_entity_association_pdr_extract asserts that the record is well formed.
ExtractAborts ==
  /\ pc = "associations"
  /\ \E r \in Records : Malformed(r)
  /\ pc' = "aborted"
  /\ UNCHANGED <<deviceVars, readVars, parseVars>>

ParseAssociations ==
  /\ pc = "associations"
  /\ \A r \in Records : ~ Malformed(r)
  /\ \E c \in IF _containerID = None THEN Garbage ELSE {_containerID} :
       LET root == extractRootNode(ParseAll("association", parseEntityAssociationPDR, <<>>), c)
       IN  /\ _entityAssociationTree' = root.tree
           /\ entityAssociationNodes' = root.left
           /\ pc' = IF root.tree = <<>> \/ root.left = <<>> THEN "hierarchy" ELSE "tree"
  /\ UNCHANGED <<deviceVars, readVars, _entityAuxNames, _systemHierarchyIntf, auxNames, cached,
                 objects>>

\* One pass over the associations: those whose container is in the tree are
\* inserted there.
Pass(tree, associations) ==
  Through(LAMBDA p, a :
             IF HasEntity(p.tree, a.entity, 1)
             THEN [p EXCEPT !.tree = insertToAssociationTree(
                                       @, FirstWith(@, a.entity, Wider), a.contained)]
             ELSE [p EXCEPT !.left = Append(@, a)],
           [tree |-> tree, left |-> <<>>], associations)

\* Broken variant: the tree is searched once.
CreateTreeInOnePass ==
  /\ pc = "tree"
  /\ LET pass == Pass(_entityAssociationTree, entityAssociationNodes)
     IN  /\ _entityAssociationTree' = pass.tree
         /\ entityAssociationNodes' = pass.left
  /\ pc' = "hierarchy"
  /\ UNCHANGED <<deviceVars, readVars, _entityAuxNames, _systemHierarchyIntf, auxNames, cached,
                 objects>>

\* createEntityAssociationTree, until nothing is left or nothing is inserted
createEntityAssociationTree ==
  /\ pc = "tree"
  /\ LET pass == Pass(_entityAssociationTree, entityAssociationNodes)
     IN  /\ _entityAssociationTree' = pass.tree
         /\ entityAssociationNodes' = pass.left
         /\ pc' = IF pass.left = <<>> \/ Len(pass.left) = Len(entityAssociationNodes)
                  THEN "hierarchy" ELSE pc
  /\ UNCHANGED <<deviceVars, readVars, _entityAuxNames, _systemHierarchyIntf, auxNames, cached,
                 objects>>

InTree == {_entityAssociationTree[i].entity : i \in DOMAIN _entityAssociationTree}

\* getEntityAssociationPaths and populateSystemHierarchy: of the paths to an
\* entity the first one stays.
populateSystemHierarchy ==
  /\ pc = "hierarchy"
  /\ _systemHierarchyIntf' =
       [e \in InTree |->
          LET way == Ways(_entityAssociationTree)[FirstWith(_entityAssociationTree, e, Deeper)]
          IN  [k \in DOMAIN way |-> _entityAssociationTree[way[k]].entity]]
  /\ pc' = "names"
  /\ UNCHANGED <<deviceVars, readVars, _entityAuxNames, entityAssociationNodes,
                 _entityAssociationTree, auxNames, cached, objects>>

-----------------------------------------------------------------------------
(***************************************************************************)
(* Sensors, effecters and FRU record sets.  Sensors of either kind share   *)
(* the ids, and so do effecters.                                           *)
(***************************************************************************)
IdOf(c) ==
  <<CASE c.type \in {"sensorName", "numericSensor", "stateSensor"} -> "sensor"
      [] c.type \in {"effecterName", "numericEffecter", "stateEffecter"} -> "effecter"
      [] OTHER -> "fru", c.id>>

\* The last name of an id stays.
parseAuxNamesPDR(names, c) == Assign(names, IdOf(c), "aux")

ParseAuxNames ==
  /\ pc = "names"
  /\ auxNames' = ParseAll("effecterName", parseAuxNamesPDR,
                          ParseAll("sensorName", parseAuxNamesPDR, auxNames))
  /\ pc' = "objects"
  /\ UNCHANGED <<deviceVars, readVars, _entityAuxNames, entityAssociationNodes,
                 _entityAssociationTree, _systemHierarchyIntf, cached, objects>>

\* createSensorName and createEffecterName replace a name that is not asked for.
Named(names, c) ==
  IF c.named /\ IdOf(c) \in DOMAIN names THEN names ELSE Assign(names, IdOf(c), "dummy")

HasPath(e) == e \in DOMAIN _systemHierarchyIntf

\* Broken variant: an object is made whether or not there is a path to its entity.
PublishAnywhere(p, c) ==
  [p EXCEPT !.names = Named(@, c),
            !.objects = Emplace(@, IdOf(c), [entity |-> c.entity, name |-> Named(p.names, c)[IdOf(c)]])]

\* createSensorObjPath, createEffecterObjPath: the object is where its entity is.
Publish(p, c) ==
  [p EXCEPT !.names = Named(@, c),
            !.objects = IF HasPath(c.entity)
                        THEN Emplace(@, IdOf(c), [entity |-> c.entity,
                                                  name |-> Named(p.names, c)[IdOf(c)]])
                        ELSE @]

Keep(p, c) == [p EXCEPT !.cached = Emplace(@, <<c.type, c.id>>, c)]

\* The record is kept whether or not there is an entity,
parseSensorPDR(p, c)        == Publish(Keep(p, c), c)
parseStateEffecterPDR(p, c) == Publish(Keep(p, c), c)

\* but not that of a numeric effecter.
parseNumericEffecterPDR(p, c) ==
  IF HasPath(c.entity) THEN Keep(Publish(p, c), c) ELSE Publish(p, c)

\* A FRU record set without its entity is discarded.
parseFRURecordSetPDR(p, c) ==
  IF HasPath(c.entity)
  THEN [p EXCEPT !.objects = Emplace(@, IdOf(c), [entity |-> c.entity, name |-> "fru"])] ELSE p

Parsed ==
  LET p0 == [names |-> auxNames, cached |-> cached, objects |-> objects]
      p1 == ParseAll("numericSensor", parseSensorPDR, p0)
      p2 == ParseAll("stateSensor", parseSensorPDR, p1)
      p3 == ParseAll("numericEffecter", parseNumericEffecterPDR, p2)
      p4 == ParseAll("stateEffecter", parseStateEffecterPDR, p3)
  IN  ParseAll("fru", parseFRURecordSetPDR, p4)

ParseObjects ==
  /\ pc = "objects"
  /\ auxNames' = Parsed.names
  /\ cached' = Parsed.cached
  /\ objects' = Parsed.objects
  /\ pc' = "done"
  /\ UNCHANGED <<deviceVars, readVars, _entityAuxNames, entityAssociationNodes,
                 _entityAssociationTree, _systemHierarchyIntf>>

-----------------------------------------------------------------------------
NothingParsed ==
  /\ _entityAuxNames = <<>>
  /\ entityAssociationNodes = <<>>
  /\ _entityAssociationTree = <<>>
  /\ _systemHierarchyIntf = <<>>
  /\ auxNames = <<>>
  /\ cached = <<>>
  /\ objects = <<>>

Init == PdrInit /\ NothingParsed

\* The terminus is initialised again, with a new PDRManager; after an abort, by
\* a pldmd that systemd has restarted.
initPDRs ==
  /\ pc \in {"done", "failed", "aborted"}
  /\ pc' = "info"
  /\ RenewManager
  /\ _entityAuxNames' = <<>>
  /\ entityAssociationNodes' = <<>>
  /\ _entityAssociationTree' = <<>>
  /\ _systemHierarchyIntf' = <<>>
  /\ auxNames' = <<>>
  /\ cached' = <<>>
  /\ objects' = <<>>
  /\ UNCHANGED deviceVars

pdrManagerInit ==
  \/ Construct /\ UNCHANGED parseVars
  \/ ParseNames
  \/ LoopOnName
  \/ ExtractAborts
  \/ ParseAssociations
  \/ createEntityAssociationTree
  \/ populateSystemHierarchy
  \/ ParseAuxNames
  \/ ParseObjects

Next ==
  \/ DeviceStep /\ UNCHANGED parseVars
  \/ pdrManagerInit
  \/ initPDRs

\* Every request is answered or given up, and what follows an answer is done.
Spec == Init /\ [][Next]_vars /\ WF_vars(pdrManagerInit)

-----------------------------------------------------------------------------
Done == pc = "done"

\* The contents of that type, in any order
OfType(type) == {Content(r) : r \in {r \in Records : IsOf(r, type)}}

\* What the records say of entity e: what is in it, and that it is a container
\* right in the container of the terminus.
InEntity(e) == UNION {Range(c.contained) : c \in {c \in OfType("association") : c.entity = e}}
Tops == {c.entity : c \in {c \in OfType("association") : c.entity.container = _containerID}}

\* A bound on the number of containers
Containers == Len(_pdrRepo)

\* What n containments lead to: an entity is reached through every container
\* once at most.
Within ==
  LET within[n \in 0 .. Containers] ==
        IF n = 0 THEN UNION {InEntity(e) : e \in Tops}
        ELSE within[n - 1] \cup UNION {InEntity(e) : e \in within[n - 1]}
  IN  within

Reachable == Within[Containers]

(***************************************************************************)
(* The entities that are published are those that containment leads to     *)
(* from the container of the terminus, whatever the order of the records,  *)
(* and each step of the path of an entity is a containment the device has  *)
(* told of.                                                                *)
(***************************************************************************)
HierarchyIsContainment ==
  Done /\ _containerID # None =>
    \/ Tops = {} /\ InTree = {}
    \/ \E root \in Tops :
         /\ DOMAIN _systemHierarchyIntf = {root} \cup Reachable
         /\ \A e \in DOMAIN _systemHierarchyIntf :
              LET path == _systemHierarchyIntf[e]
              IN  /\ path[1] = root /\ path[Len(path)] = e
                  /\ \A k \in 2 .. Len(path) :
                       path[k] \in InEntity(path[k - 1])
                                   \cup IF k = 2 THEN UNION {InEntity(t) : t \in Tops} ELSE {}

(***************************************************************************)
(* A sensor, an effecter or a FRU record set is published exactly when an  *)
(* entity one of its records names is, at such an entity, whatever the     *)
(* order of the records; and a sensor or effecter that is published has    *)
(* its record kept for its handler.                                        *)
(***************************************************************************)
ObjectsFollowEntities ==
  Done =>
    LET all == {c \in {Content(r) : r \in Records} :
                  /\ c.type \in {"numericSensor", "stateSensor", "numericEffecter",
                                 "stateEffecter", "fru"}
                  /\ c.wellFormed}
        with(id) == {c.entity : c \in {c \in all : IdOf(c) = id}}
    IN  /\ DOMAIN objects = {IdOf(c) : c \in {c \in all : HasPath(c.entity)}}
        /\ \A id \in DOMAIN objects : objects[id].entity \in with(id) \cap DOMAIN _systemHierarchyIntf
        /\ \A c \in all : c.type # "fru" /\ HasPath(c.entity) => <<c.type, c.id>> \in DOMAIN cached

(***************************************************************************)
(* pdrManagerInit comes to an end, however the device answers and changes  *)
(* its records, but for two records that only their content sets apart:    *)
(* one name for instances past 16 bits, where it is caught in the loop     *)
(* over them (pdr_manager.cpp:552), and an association that is not well    *)
(* formed, which aborts pldmd (pdr.c:683).                                 *)
(***************************************************************************)
CaughtByName ==
  pc = "looping" /\ \E c \in OfType("entityName") : Overruns(c)

AbortedByAssociation ==
  pc = "aborted" /\ \E r \in Records : Malformed(r)

InitEnds ==
  pc \notin {"done", "failed"} ~> \/ pc \in {"done", "failed"}
                                  \/ CaughtByName \/ AbortedByAssociation
=============================================================================
