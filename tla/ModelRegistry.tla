----------------------------- MODULE ModelRegistry -----------------------------
(***************************************************************************)
(* models.rs: the catalogue of models, and the one a request for a model   *)
(* is served with.  A name is split at what the code looks for in it: the  *)
(* provider before the last "/", the surface, the suffix ":free".          *)
(***************************************************************************)
EXTENDS Integers, Sequences, SequencesExt

CONSTANTS
    PaidSurfaces, FreeSurfaces,  \* what the catalogue lists, in its order
    SurfaceProvider,  \* the provider of a surface, for those that have one
    FreeUntil,        \* the end of the free window of a surface, likewise
    Rudder,           \* the surface of the model that is always free
    NoProvider, NoName

Name(p, s, f) == [provider |-> p, surface |-> s, free |-> f]

(* upstream_id: the full name of the free or the paid route of a surface.    *)
UpstreamId(s, free) ==
    Name(IF s \in DOMAIN SurfaceProvider THEN SurfaceProvider[s] ELSE NoProvider,
         s, free)

DefaultModel == Name(NoProvider, Rudder, TRUE)

(* The ids of the catalogue; Rudder's is pushed last, as it is. *)
FreeIds   == [i \in DOMAIN FreeSurfaces |-> UpstreamId(FreeSurfaces[i], TRUE)]
                 \o <<DefaultModel>>
PaidIds   == [i \in DOMAIN PaidSurfaces |-> UpstreamId(PaidSurfaces[i], FALSE)]
Catalogue == ToSet(PaidIds) \cup ToSet(FreeIds)

ASSUME RegistryAssumption ==
    /\ FreeSurfaces \in Seq(ToSet(FreeSurfaces))
    /\ PaidSurfaces \in Seq(ToSet(PaidSurfaces))
    /\ IsInjective(PaidIds \o FreeIds)
    /\ \A s \in DOMAIN FreeUntil : FreeUntil[s] \in Int
    /\ Rudder \notin DOMAIN FreeUntil \cup ToSet(FreeSurfaces)
    /\ ToSet(FreeSurfaces) \subseteq DOMAIN SurfaceProvider
    /\ NoProvider \notin {SurfaceProvider[s] : s \in DOMAIN SurfaceProvider}
    /\ NoName \notin Catalogue
    /\ \A s \in ToSet(FreeSurfaces), f \in BOOLEAN : NoName # Name(NoProvider, s, f)

(* available_at: a free route ends with its window. *)
Available(now) ==
    {m \in Catalogue : m.free /\ m.surface \in DOMAIN FreeUntil
                           => now <= FreeUntil[m.surface]}

(* The first of a sequence that is in a set, or else another. *)
FirstIn(seq, S, else) ==
    LET hits == {i \in DOMAIN seq : seq[i] \in S}
    IN  IF hits = {} THEN else ELSE seq[Min(hits)]

(* Mutant of Readings: the paid route of a bare surface is tried first. *)
ReadingsPaidFirst(name) ==
    IF name.provider # NoProvider THEN <<name>>
    ELSE <<name, UpstreamId(name.surface, name.free), UpstreamId(name.surface, TRUE)>>

(* What a name may mean: itself, and a bare surface its free route before     *)
(* the one it names.                                                         *)
Readings(name) ==
    IF name.provider # NoProvider THEN <<name>>
    ELSE <<name, UpstreamId(name.surface, TRUE), UpstreamId(name.surface, name.free)>>

(* Mutant of Normalize: the suffix ":free" of a bare surface is not stripped. *)
NormalizeUnstripped(name) ==
    IF name = NoName THEN DefaultModel
    ELSE FirstIn(IF name.free THEN <<name>> ELSE Readings(name), Catalogue, name)

Normalize(name) ==
    IF name = NoName THEN DefaultModel
    ELSE FirstIn(Readings(name), Catalogue, name)

(* Mutant of Resolve: a model of the catalogue is served whatever the time.   *)
ResolveAnytime(name, now) ==
    FirstIn(<<Normalize(name)>> \o FreeIds, Catalogue, DefaultModel)

(* The model named, or else the first free one that can be had. *)
Resolve(name, now) ==
    FirstIn(<<Normalize(name)>> \o FreeIds, Available(now), DefaultModel)
===============================================================================
