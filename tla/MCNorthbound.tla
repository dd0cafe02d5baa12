------------------------------ MODULE MCNorthbound ------------------------------
(***************************************************************************)
(* Northbound for TLC: a deferred lookup, an audit, a fault that is set    *)
(* and set again, and one resolved early.  A second has two ticks.         *)
(***************************************************************************)
EXTENDS Northbound, TLC

Target(device, interface) == [device |-> device, interface |-> interface]

Sample(action, mode, targets) ==
  [action |-> action, mode |-> mode, targets |-> targets, override |-> "", duration |-> 0,
   maximum |-> 0]

Change(action, override, duration, maximum) ==
  [action |-> action, mode |-> "", targets |-> << >>, override |-> override,
   duration |-> duration, maximum |-> maximum]

MCClean(name) == IF name = "d:1" THEN "d-1" ELSE IF name = "d/2" THEN "d-2"
                 ELSE IF name = "i:1" THEN "i-1" ELSE name

\* An invocation without an id has the id "".
MCSamples ==
  ("lookup" :> Sample("device-lookup", "deferred", <<Target("d:1", ""), Target("d/2", "")>>))
  @@ ("" :> Sample("interface-audit", "deferred", <<Target("d:1", "i:1")>>))

MCOddSamples ==
  ("lookup" :> Sample("device-lookup", "deferred", <<Target("d:1", "i:1"), Target("", "")>>))
  @@ ("audit" :> Sample("interface-audit", "immediate", <<Target("d:1", "i:1")>>))
  @@ ("other" :> Sample("reboot", "", << >>))

MCFaults ==
  ("inject" :> Change("inject", "fault", 3, 2))
  @@ ("again" :> Change("inject", "fault", 4, 2))
  @@ ("resolve" :> Change("resolve", "fault", 0, 0))

MCWindows ==
  ("inject" :> Change("inject", "fault", 3, 2))
  @@ ("blink" :> Change("inject", "window", 1, 1))
  @@ ("refused" :> Change("inject", "window", 6, 0))

Setting(jobs, first, ahead, version) ==
  [jobs |-> jobs, first |-> first, skew |-> ahead, schema |-> version]

MCSettings ==
  {Setting(jobs, first, 0, "v1") : jobs \in {MCSamples, MCOddSamples}, first \in {0, 1}}
  \cup {Setting(MCFaults, 0, ahead, "v1") : ahead \in {-1, 1}}
  \cup {Setting(MCWindows, 0, 0, version) : version \in {"v1", "v2"}}
=============================================================================
