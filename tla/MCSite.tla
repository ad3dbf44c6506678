------------------------------- MODULE MCSite -------------------------------
(***************************************************************************)
(* The parts of the site, in one run: a behaviour is one part's (the       *)
(* others stay as they are at the start), so the state spaces add and do   *)
(* not multiply.  The parts share no state but for the search, which is in *)
(* the picker's part and in the like buttons'.                             *)
(***************************************************************************)
EXTENDS UploadList, Crates, CrateZip, PageControls, Dedup,
        Overlays, Preflight, PartTransfer, Strategies

CONSTANTS m1, m2, m3         \* files, tunes, tags, queries and sheets

VARIABLE part
siteVars == <<part, uploadListVars, cratesVars, zipVars, controlsVars, dedupVars,
              overlaysVars, preflightVars, partVars, strategyVars>>

MCRowSizes == {-1, 1, 5, 6}
MCCopies == {{1, 2}, {2, 3}}
MCLikely == {{1, 3}}

\* Tracks 1 and 2 are one recording, 3 and 4 differ in nothing but their ids and
\* tiers, 5 is not yet analysed; the keys lie where the wheel closes.
Song(id, rec, num, letter, bpm, likes, created, tier) ==
    [id |-> id, rec |-> rec, num |-> num, letter |-> letter, bpm |-> bpm,
     likes |-> likes, created |-> created, tier |-> tier]
MCCatalogue == {Song(1, 1, 12, "A", 128, 0, 1, 3), Song(2, 1, 1, "A", 126, 0, 1, 3),
                Song(3, 0, 11, "A", 124, 1, 2, -1), Song(4, 0, 11, "A", 124, 1, 2, 2),
                Song(5, 2, 0, "A", 0, 0, 0, -1), Song(6, 0, 12, "B", 130, 2, 1, 4)}
MCDraw(s, k, i) == (3 * s + k) % (i + 1)

Init ==
    /\ part \in {"list", "crate", "archive", "picker", "like", "tag", "dedup",
                "overlay", "preflight", "transfer", "strategy"}
    /\ UploadListInit /\ CratesInit /\ ZipInit /\ ControlsInit /\ DedupInit
    /\ OverlaysInit /\ PreflightInit /\ PartsInit /\ StrategiesInit
    /\ part # "crate" => items = <<>>
    /\ part # "preflight" => supported
    /\ part # "transfer" => size = 3 /\ stored.partSize = PartSize

Next ==
    /\ UNCHANGED part
    /\ \/ part = "list" /\ UploadListNext
          /\ UNCHANGED <<cratesVars, zipVars, dedupVars, overlaysVars, preflightVars,
                        partVars, strategyVars, controlsVars>>
       \/ part = "crate" /\ CratesNext
          /\ UNCHANGED <<uploadListVars, zipVars, dedupVars, overlaysVars,
                        preflightVars, partVars, strategyVars, controlsVars>>
       \/ part = "archive" /\ ZipNext
          /\ UNCHANGED <<uploadListVars, cratesVars, dedupVars, overlaysVars,
                        preflightVars, partVars, strategyVars, controlsVars>>
       \/ part = "dedup" /\ DedupNext
          /\ UNCHANGED <<uploadListVars, cratesVars, zipVars, overlaysVars,
                        preflightVars, partVars, strategyVars, controlsVars>>
       \/ part = "overlay" /\ OverlaysNext
          /\ UNCHANGED <<uploadListVars, cratesVars, zipVars, dedupVars, preflightVars,
                        partVars, strategyVars, controlsVars>>
       \/ part = "preflight" /\ PreflightNext
          /\ UNCHANGED <<uploadListVars, cratesVars, zipVars, dedupVars, overlaysVars,
                        partVars, strategyVars, controlsVars>>
       \/ part = "transfer" /\ PartsNext
          /\ UNCHANGED <<uploadListVars, cratesVars, zipVars, dedupVars, overlaysVars,
                        preflightVars, strategyVars, controlsVars>>
       \/ part = "strategy" /\ StrategiesNext
          /\ UNCHANGED <<uploadListVars, cratesVars, zipVars, dedupVars, overlaysVars,
                        preflightVars, partVars, controlsVars>>
       \/ part = "picker" /\ PickNext
          /\ UNCHANGED <<uploadListVars, cratesVars, zipVars, dedupVars, overlaysVars,
                        preflightVars, partVars, strategyVars, likeVars, tagVars,
                        searchVars>>
       \/ part = "like" /\ LikeNext
          /\ UNCHANGED <<uploadListVars, cratesVars, zipVars, dedupVars, overlaysVars,
                        preflightVars, partVars, strategyVars, pickVars, tagVars,
                        fieldVars>>
       \/ part = "tag" /\ TagNext
          /\ UNCHANGED <<uploadListVars, cratesVars, zipVars, dedupVars, overlaysVars,
                        preflightVars, partVars, strategyVars, pickVars, likeVars,
                        searchVars>>
       \/ part \in {"picker", "like"} /\ SearchNext
          /\ UNCHANGED <<uploadListVars, cratesVars, zipVars, dedupVars, overlaysVars,
                        preflightVars, partVars, strategyVars, tagVars>>

\* UploadListFairness names the upload list's own steps, which no other part takes.
Spec == Init /\ [][Next]_siteVars /\ UploadListFairness

\* Shape of the part that runs; the others stay as they are at the start.
SiteTypeOK ==
    /\ part = "list" => UploadListTypeOK
    /\ part = "crate" => CratesTypeOK
    /\ part = "archive" => ZipTypeOK
    /\ part \in {"picker", "like", "tag"} => ControlsTypeOK
    /\ part = "dedup" => DedupTypeOK
    /\ part = "overlay" => OverlaysTypeOK
    /\ part = "preflight" => PreflightTypeOK
    /\ part = "transfer" => PartsTypeOK
    /\ part = "strategy" => StrategiesTypeOK
=============================================================================
