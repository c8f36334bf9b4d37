------------------------------ MODULE HarnessTable ------------------------------
(* From harnesses.toml to the table a gateway is built with: what            *)
(* HarnessRouteTable::from_toml_str accepts, and what it makes of it         *)
(* (routing/harness_table.rs).                                               *)
(*   file    [bases, harnesses, routes]                                      *)
(*   base    [wires, able, labelled]                                         *)
(*   harness [base, route, needs]                                            *)
(*   entry   [strategy, legs (<<[base, target]>>), router, profiles, tiers], *)
(*           legs, router and tiers None when absent                         *)
(*   profile [name, bases, described]   tier [name, bases, targets, described] *)
(*   router  [defaultProfile, defaultTier, inRange]                          *)
(*   target  [leg] or [alias], a route of routes.toml                        *)
(* described and inRange stand for the checks of names, descriptions,        *)
(* thresholds and limits.                                                    *)
EXTENDS HarnessGrid

CONSTANT ModelRoutes   \* routes.toml: alias -> legs

ASSUME ModelRoutesAssumption == \A a \in DOMAIN ModelRoutes : IsList(ModelRoutes[a])

\* An absent strategy is none of the names.
ASSUME NoneAssumption == None # "jev"

MaxTiers == 10
AutoBase == "auto"

\* The legs a target stands for; none at all is refused: an alias nobody
\* declares, or nothing but typesafe where no base speaks it.
ExpandTarget(target, allowTypesafe) ==
  LET legs == IF "leg" \in DOMAIN target THEN <<target.leg>>
              ELSE IF target.alias \in DOMAIN ModelRoutes THEN ModelRoutes[target.alias] ELSE <<>>
  IN Filter(legs, LAMBDA l : allowTypesafe \/ l.provider # "typesafe")

SpeaksTypesafe(spec) == "typesafe" \in spec.wires

----------------------------------------------------------------------------
(* Static routes *)

LegsOfEntry(e, bases) == ExpandTarget(e.target, SpeaksTypesafe(bases[e.base]))

StaticAccepted(entry, bases) ==
  /\ entry.profiles = <<>> /\ entry.tiers = None /\ entry.router = None
  /\ entry.legs # None => \A e \in Range(entry.legs) :
       /\ e.base \in DOMAIN bases
       /\ LegsOfEntry(e, bases) # <<>>
       /\ \A l \in Range(LegsOfEntry(e, bases)) : Speaks(bases[e.base], l)

ExpandStaticLegs(entry, bases) ==
  IF entry.legs = None THEN <<>>
  ELSE FlatMap(entry.legs, LAMBDA e :
         LET legs == LegsOfEntry(e, bases)
         IN [k \in DOMAIN legs |-> [base |-> e.base, leg |-> legs[k]]])

----------------------------------------------------------------------------
(* Decided routes *)

AnyTypesafeBase(bases) == \E b \in DOMAIN bases : SpeaksTypesafe(bases[b])

\* Two profiles or more, the default one of them, or no profile.
ProfilesAccepted(entry, bases) ==
  /\ \A p \in Range(entry.profiles) :
       p.described /\ p.bases # <<>> /\ Range(p.bases) \subseteq DOMAIN bases
  /\ entry.profiles = <<>> \/ /\ Len(entry.profiles) \in 2..MaxTiers
                              /\ \E p \in Range(entry.profiles) : p.name = entry.router.defaultProfile

TiersAccepted(entry, bases) ==
  /\ Len(entry.tiers) \in 2..MaxTiers
  /\ \A i, j \in DOMAIN entry.tiers : entry.tiers[i].name = entry.tiers[j].name => i = j
  /\ \E t \in Range(entry.tiers) : t.name = entry.router.defaultTier
  /\ \A t \in Range(entry.tiers) :
       /\ t.described /\ t.targets # <<>>
       /\ t.bases = None \/ (t.bases # {} /\ t.bases \subseteq DOMAIN bases)
       /\ \A target \in Range(t.targets) : ExpandTarget(target, AnyTypesafeBase(bases)) # <<>>

BuiltTiers(entry, bases) ==
  [i \in DOMAIN entry.tiers |->
     [name |-> entry.tiers[i].name, bases |-> entry.tiers[i].bases,
      legs |-> FlatMap(entry.tiers[i].targets, LAMBDA x : ExpandTarget(x, AnyTypesafeBase(bases)))]]

\* A cell of some tier for every profile. Without profiles nobody looks.
ProfilesHaveCells(entry, bases) ==
  \A p \in Range(entry.profiles) : \E b \in Range(p.bases), t \in Range(BuiltTiers(entry, bases)) :
    Allows(t, b) /\ \E l \in Range(t.legs) : Speaks(bases[b], l)

JevAccepted(entry, bases) ==
  /\ entry.legs = None /\ entry.router # None /\ entry.tiers # None
  /\ entry.router.inRange
  /\ ProfilesAccepted(entry, bases) /\ TiersAccepted(entry, bases)
  /\ ProfilesHaveCells(entry, bases)

BuildJevRoute(entry, bases) ==
  [profiles |-> [i \in DOMAIN entry.profiles |->
                  [name |-> entry.profiles[i].name, bases |-> entry.profiles[i].bases]],
   tiers |-> BuiltTiers(entry, bases),
   defaultProfile |-> entry.router.defaultProfile, defaultTier |-> entry.router.defaultTier]

----------------------------------------------------------------------------
(* The file *)

EntryAccepted(entry, bases) ==
  CASE entry.strategy \in {None, "static"} -> StaticAccepted(entry, bases)
    [] entry.strategy = "jev" -> JevAccepted(entry, bases)
    [] OTHER -> FALSE

\* A concrete base is looked up, its route is not: that is the turn's to find.
HarnessAccepted(h, file) ==
  IF h.base = AutoBase THEN h.route \in DOMAIN file.routes ELSE h.base \in DOMAIN file.bases

\* None when the file is refused.
FromFile(file) ==
  LET decided == {a \in DOMAIN file.routes : file.routes[a].strategy = "jev"}
      Route(a) == BuildJevRoute(file.routes[a], file.bases)
  IN IF /\ \A b \in DOMAIN file.bases : file.bases[b].labelled /\ file.bases[b].wires # {}
        /\ \A a \in DOMAIN file.routes : EntryAccepted(file.routes[a], file.bases)
        /\ \A h \in DOMAIN file.harnesses : HarnessAccepted(file.harnesses[h], file)
     THEN [catalog |-> file.bases, harnesses |-> file.harnesses,
           jev |-> [a \in decided |-> Route(a)],
           static |-> [a \in DOMAIN file.routes |->
                        IF a \in decided THEN FlattenJevToStatic(Route(a), file.bases)
                        ELSE ExpandStaticLegs(file.routes[a], file.bases)]]
     ELSE None
=============================================================================
