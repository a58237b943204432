---------------------------- MODULE MCPdrManager ----------------------------
(***************************************************************************)
(* A few small repositories, in parts, and a few of whole devices.         *)
(***************************************************************************)
EXTENDS PdrManager

E(i, c) == [id |-> i, container |-> c]

Board == E("board", 1)
Cpu   == E("cpu", 2)
Fan   == E("fan", 2)
Core  == E("core", 3)
Other == E("other", 1)
Lost  == E("lost", 9)

Locator(c)    == [type |-> "locator", valid |-> TRUE, container |-> c, wellFormed |-> TRUE]
Stale         == [Locator(1) EXCEPT !.valid = FALSE]
Holding(e, s) == [type |-> "association", entity |-> e, contained |-> s, wellFormed |-> TRUE]
Name(e, i, n) == [type |-> "entityName", entity |-> e, instance |-> i, name |-> "n", shared |-> n,
                  wellFormed |-> TRUE]
Thing(t, i, e, n) == [type |-> t, id |-> i, entity |-> e, named |-> n, wellFormed |-> TRUE]
AuxName(t, i) == [type |-> t, id |-> i, wellFormed |-> TRUE]

MCRepositories == {
  <<Locator(1), Locator(2)>>,
  <<Locator(1), Stale>>,
  <<Holding(Board, <<Cpu>>), Thing("numericSensor", 1, Cpu, TRUE)>>}

MCCalm == {
  \* two levels, and something unreachable
  <<Locator(1), Holding(Core, <<E("unit", 4)>>), Holding(Cpu, <<Core>>),
    Holding(Board, <<Cpu, Fan>>), Holding(Lost, <<E("x", 9)>>)>>,
  \* a cycle, and an entity in two places
  <<Locator(1), Holding(Board, <<Cpu, Fan, Cpu>>), Holding(Cpu, <<Core, Fan>>),
    Holding(Core, <<Cpu, Board>>)>>,
  \* two at the top, and one container in two records
  <<Locator(1), Holding(Board, <<Cpu>>), Holding(Other, <<Fan, Board>>),
    Holding(Board, <<Fan, Core>>)>>,
  \* no locator
  <<Holding(Board, <<Cpu>>), Name(Board, 1, 0), Name(Board, 1, 2)>>,
  \* the last instances that can share a name, and one more
  <<Locator(1), Name(Cpu, 65532, 2)>>,
  <<Locator(1), Name(Cpu, 65533, 2), Holding(Board, <<Cpu>>)>>,
  <<Name(Fan, 65535, 0), [Name(Cpu, 65535, 1) EXCEPT !.wellFormed = FALSE]>>,
  \* an association that is not well formed
  <<Holding(Board, <<Cpu>>), [Holding(Cpu, <<Core>>) EXCEPT !.wellFormed = FALSE]>>,
  \* sensors and effecters, one id twice
  <<Locator(1), Holding(Board, <<Cpu>>), Thing("numericSensor", 1, Cpu, TRUE),
    Thing("stateSensor", 1, Lost, FALSE), AuxName("sensorName", 1)>>,
  <<Locator(1), Holding(Board, <<Cpu>>), Thing("numericEffecter", 1, Lost, TRUE),
    Thing("numericEffecter", 1, Board, TRUE), AuxName("effecterName", 1)>>,
  <<Locator(1), Holding(Board, <<Cpu>>), Thing("stateEffecter", 2, Cpu, FALSE),
    [Thing("stateEffecter", 3, Cpu, FALSE) EXCEPT !.wellFormed = FALSE], Thing("fru", 1, Cpu, FALSE)>>}

AllRepositories == MCRepositories \cup MCCalm
=============================================================================
