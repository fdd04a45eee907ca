----------------------- MODULE InputSetPublicationProofs -----------------------
(***************************************************************************)
(* What holds of the publication of an integration input set for any list  *)
(* of surfaces, any number of exports and any number of interruptions.     *)
(***************************************************************************)
EXTENDS InputSetPublication, TLAPS

\* The number of surfaces, and what a position in their list is.
LEMMA SurfacesAreIndexed ==
  /\ Len(Surfaces) \in Nat
  /\ DOMAIN Surfaces = 1 .. Len(Surfaces)
  /\ \A k \in DOMAIN Surfaces : Surfaces[k] \in Roles
BY PublicationAssumption DEF PublicationAssumption, Roles

---------------------------------------------------------------------------
(* Type correctness. *)

LEMMA InitTypeOK == Init => TypeOK
BY PublicationAssumption, SurfacesAreIndexed
   DEF PublicationAssumption, Init, TypeOK, NothingStaged, Contents

LEMMA NextTypeOK == TypeOK /\ [Next]_vars => TypeOK'
<1> SUFFICES ASSUME TypeOK, [Next]_vars PROVE TypeOK'
  OBVIOUS
<1> USE PublicationAssumption, SurfacesAreIndexed DEF TypeOK, Contents
<1>1. ASSUME NEW w \in Writers, Begin(w) PROVE TypeOK'
  BY <1>1 DEF Begin, Goto
<1>2. ASSUME NEW w \in Writers, LoadModel(w) PROVE TypeOK'
  BY <1>2 DEF LoadModel, Goto, NothingStaged
<1>3. ASSUME NEW w \in Writers, StageSurface(w) PROVE TypeOK'
  <2>1. staged' \in [Writers -> [Roles -> Contents]]
    BY <1>3 DEF StageSurface, Produced
  <2>2. next' \in [Writers -> 1 .. Len(Surfaces) + 1]
    BY <1>3 DEF StageSurface
  <2> QED BY <1>3, <2>1, <2>2 DEF StageSurface
<1>4. ASSUME NEW w \in Writers, StageManifest(w) PROVE TypeOK'
  BY <1>4 DEF StageManifest, Goto
<1>5. ASSUME NEW w \in Writers, PublishSurface(w) PROVE TypeOK'
  <2>1. files' \in [Roles -> Contents]
    BY <1>5 DEF PublishSurface
  <2>2. next' \in [Writers -> 1 .. Len(Surfaces) + 1]
    BY <1>5 DEF PublishSurface
  <2> QED BY <1>5, <2>1, <2>2 DEF PublishSurface
<1>6. ASSUME NEW w \in Writers, PublishManifest(w) PROVE TypeOK'
  BY <1>6 DEF PublishManifest, Goto
<1>7. ASSUME NEW w \in Writers, Interrupted(w) PROVE TypeOK'
  BY <1>7 DEF Interrupted, Goto, PublicationAssumption
<1>8. CASE EditMission
  BY <1>8 DEF EditMission
<1>9. CASE UNCHANGED vars
  BY <1>9 DEF vars
<1> QED
  BY <1>1, <1>2, <1>3, <1>4, <1>5, <1>6, <1>7, <1>8, <1>9 DEF Next, Step

\* The type invariant holds in every state of every export.
THEOREM TypeCorrect == Spec => []TypeOK
BY InitTypeOK, NextTypeOK, PTL DEF Spec

---------------------------------------------------------------------------
(* One load.  Everything an export has staged is of the version it loaded, *)
(* because the surfaces are forgotten when the model is loaded.            *)

StagedFromLoad ==
  \A w \in Writers : \A r \in Roles : staged[w][r] \in {loaded[w], Absent}

LoadInv == TypeOK /\ StagedFromLoad /\ OneLoad

LEMMA InitLoadInv == Init => LoadInv
BY InitTypeOK DEF Init, LoadInv, StagedFromLoad, OneLoad, NothingStaged

LEMMA NextLoadInv == LoadInv /\ [Next]_vars => LoadInv'
<1> SUFFICES ASSUME LoadInv, [Next]_vars PROVE StagedFromLoad' /\ OneLoad'
  BY NextTypeOK DEF LoadInv
<1> USE DEF LoadInv, StagedFromLoad, OneLoad
<1>1. ASSUME NEW w \in Writers, Begin(w) PROVE StagedFromLoad' /\ OneLoad'
  BY <1>1 DEF Begin
<1>2. ASSUME NEW w \in Writers, LoadModel(w) PROVE StagedFromLoad' /\ OneLoad'
  BY <1>2 DEF LoadModel, NothingStaged, TypeOK
<1>3. ASSUME NEW w \in Writers, StageSurface(w) PROVE StagedFromLoad' /\ OneLoad'
  <2>1. PICK content \in {loaded[w], Absent} :
          staged' = [staged EXCEPT ![w][Surfaces[next[w]]] = content]
    BY <1>3 DEF StageSurface, Produced
  <2>2. StagedFromLoad'
    BY <1>3, <2>1 DEF StageSurface, TypeOK
  <2> QED BY <1>3, <2>2 DEF StageSurface
<1>4. ASSUME NEW w \in Writers, PublishManifest(w) PROVE StagedFromLoad' /\ OneLoad'
  <2>1. \A r, s \in Roles : staged[w][r] # Absent /\ staged[w][s] # Absent
                              => staged[w][r] = staged[w][s]
    OBVIOUS
  <2> QED BY <1>4, <2>1 DEF PublishManifest
<1>5. CASE UNCHANGED <<staged, loaded, manifest>>
  BY <1>5
<1> QED
  BY <1>1, <1>2, <1>3, <1>4, <1>5
     DEF Next, Step, StageManifest, PublishSurface, Interrupted, EditMission, vars

\* However many exports run at once, and however the workspace is edited
\* under them, a published manifest lists surfaces of one load.
THEOREM ManifestsAreOfOneLoad == Spec => []OneLoad
<1>1. LoadInv => OneLoad
  BY DEF LoadInv
<1> QED BY <1>1, InitLoadInv, NextLoadInv, PTL DEF Spec

---------------------------------------------------------------------------
(* The manifest-last rule, for exports run one at a time.  A manifest is   *)
(* there only while nobody exports, and a publishing export has replaced   *)
(* every surface up to the one it comes to next.                           *)

OneAtATime ==
  \A v, w \in Writers : pc[v] # "idle" /\ pc[w] # "idle" => v = w
ManifestWithdrawn ==
  \A w \in Writers : pc[w] # "idle" => manifest = NoManifest
PublishedSoFar ==
  \A w \in Writers : pc[w] = "publish" =>
    \A k \in DOMAIN Surfaces : k < next[w] => files[Surfaces[k]] = staged[w][Surfaces[k]]

DescribesInv ==
  TypeOK /\ OneAtATime /\ ManifestWithdrawn /\ PublishedSoFar /\ ManifestDescribes

LEMMA InitDescribesInv == Init => DescribesInv
BY InitTypeOK
   DEF Init, DescribesInv, OneAtATime, ManifestWithdrawn, PublishedSoFar, ManifestDescribes

\* What an export publishes with its manifest is all that it has staged.
LEMMA AllPublished ==
  ASSUME DescribesInv, NEW w \in Writers, PublishManifest(w)
  PROVE  files = staged[w]
<1> USE SurfacesAreIndexed DEF DescribesInv, TypeOK
<1>1. next[w] = Len(Surfaces) + 1
  BY DEF PublishManifest
<1>2. \A k \in DOMAIN Surfaces : files[Surfaces[k]] = staged[w][Surfaces[k]]
  BY <1>1, SMTT(30) DEF PublishManifest, PublishedSoFar
<1>3. \A r \in Roles : files[r] = staged[w][r]
  BY <1>2 DEF Roles
<1> QED BY <1>3

LEMMA NextDescribesInv ==
  ASSUME Serialised, DescribesInv, [Next]_vars PROVE DescribesInv'
<1> USE SurfacesAreIndexed DEF DescribesInv
<1>0. TypeOK'
  BY NextTypeOK
<1> SUFFICES OneAtATime' /\ ManifestWithdrawn' /\ PublishedSoFar' /\ ManifestDescribes'
  BY <1>0
<1> USE DEF TypeOK, OneAtATime, ManifestWithdrawn, PublishedSoFar, ManifestDescribes
<1> DEFINE Goal == OneAtATime' /\ ManifestWithdrawn' /\ PublishedSoFar' /\ ManifestDescribes'
<1>1. ASSUME NEW w \in Writers, Begin(w) PROVE Goal
  BY <1>1 DEF Begin, MayStart, Goto
<1>2. ASSUME NEW w \in Writers, LoadModel(w) PROVE Goal
  BY <1>2 DEF LoadModel, Goto
<1>3. ASSUME NEW w \in Writers, StageSurface(w) PROVE Goal
  BY <1>3 DEF StageSurface
<1>4. ASSUME NEW w \in Writers, StageManifest(w) PROVE Goal
  <2>1. \A k \in DOMAIN Surfaces : ~(k < 1)
    OBVIOUS
  <2> QED BY <1>4, <2>1 DEF StageManifest, Goto
<1>5. ASSUME NEW w \in Writers, PublishSurface(w) PROVE Goal
  <2>1. OneAtATime' /\ ManifestWithdrawn' /\ ManifestDescribes'
    BY <1>5 DEF PublishSurface
  <2>2. \A v \in Writers : pc'[v] = "publish" => v = w
    BY <1>5 DEF PublishSurface
  <2>3. next[w] \in DOMAIN Surfaces /\ next'[w] = next[w] + 1 /\ staged' = staged
    BY <1>5 DEF PublishSurface
  <2>4. ASSUME NEW k \in DOMAIN Surfaces, k < next'[w]
        PROVE  files'[Surfaces[k]] = staged'[w][Surfaces[k]]
    <3>1. CASE Surfaces[k] = Surfaces[next[w]]
      BY <1>5, <2>3, <3>1 DEF PublishSurface
    <3>2. CASE Surfaces[k] # Surfaces[next[w]]
      <4>1. k # next[w]
        BY <3>2
      <4>2. k < next[w]
        BY <2>3, <2>4, <4>1
      <4>3. files[Surfaces[k]] = staged[w][Surfaces[k]]
        BY <1>5, <4>2 DEF PublishSurface
      <4> QED BY <1>5, <2>3, <3>2, <4>3 DEF PublishSurface
    <3> QED BY <3>1, <3>2
  <2> QED BY <2>1, <2>2, <2>4
<1>6. ASSUME NEW w \in Writers, PublishManifest(w) PROVE Goal
  <2>1. files' = manifest'
    BY <1>6, AllPublished DEF PublishManifest
  <2>2. \A v \in Writers : pc'[v] = "idle"
    BY <1>6 DEF PublishManifest, Goto
  <2> QED BY <2>1, <2>2
<1>7. ASSUME NEW w \in Writers, Interrupted(w) PROVE Goal
  BY <1>7 DEF Interrupted, Goto
<1>8. CASE EditMission
  BY <1>8 DEF EditMission
<1>9. CASE UNCHANGED vars
  BY <1>9 DEF vars
<1> QED
  BY <1>1, <1>2, <1>3, <1>4, <1>5, <1>6, <1>7, <1>8, <1>9 DEF Next, Step

\* A manifest that is there describes the files beside it, wherever earlier
\* exports were interrupted.
THEOREM ManifestIsTrue == ASSUME Serialised PROVE Spec => []ManifestDescribes
<1>1. Init => DescribesInv
  BY InitDescribesInv
<1>2. DescribesInv /\ [Next]_vars => DescribesInv'
  BY NextDescribesInv
<1>3. DescribesInv => ManifestDescribes
  BY DEF DescribesInv
<1> QED BY <1>1, <1>2, <1>3, PTL DEF Spec

\* No surface is replaced or deleted while a manifest is there.
THEOREM NoSilentChange == ASSUME Serialised PROVE Spec => ChangesUnannounced
<1>1. Init => DescribesInv
  BY InitDescribesInv
<1>2. DescribesInv /\ [Next]_vars => DescribesInv'
  BY NextDescribesInv
<1>3. DescribesInv /\ [Next]_vars
        => [files' # files => manifest = NoManifest /\ manifest' = NoManifest]_vars
  <2> SUFFICES ASSUME DescribesInv, Next, files' # files
               PROVE  manifest = NoManifest /\ manifest' = NoManifest
    OBVIOUS
  <2>1. PICK w \in Writers : PublishSurface(w)
    BY DEF Next, Step, Begin, LoadModel, StageSurface, StageManifest,
           PublishManifest, Interrupted, EditMission
  <2> QED BY <2>1 DEF PublishSurface, DescribesInv, ManifestWithdrawn
<1> QED BY <1>1, <1>2, <1>3, PTL DEF Spec, ChangesUnannounced

=============================================================================
