---------------------------- MODULE MCDownloads ----------------------------
(* Two jobs that may share their destName, two plugins of different API    *)
(* minors, and four archives: a good pack, one whose only entry climbs     *)
(* once normalised, a model, and one with a file that is broken.           *)
EXTENDS DownloadService

File(path) == [root |-> "rel", path |-> path, dir |-> FALSE, intact |-> TRUE]

GoodPack == <<File(<<"Alice", "meta.mko">>), File(<<"Alice", ".", "a.ogg">>)>>
Climbing == <<File(<<"x", "..", "..", "meta.mko">>)>>
Model == <<File(<<"Miku", "Miku.model3.json">>)>>
Broken == <<File(<<"Miku", "Miku.model3.json">>),
            [File(<<"Miku", "Miku.moc3">>) EXCEPT !.intact = FALSE]>>

Request(scheme, dest, sha, archive) ==
    [scheme |-> scheme, dest |-> dest, sha |-> sha, archive |-> archive]

MCRequests == {Request("https", "pack.zip", "right", GoodPack),
               Request("file", "pack.zip", "", Climbing),
               Request("https", "model.zip", "wrong", Model),
               Request("https", "model.zip", "", Model),
               Request("https", "model.zip", "", Broken),
               Request("http", "pack.zip", "", GoodPack)}
MCCallers == {[id |-> "org.a", granted |-> TRUE, minor |-> 13],
              [id |-> "org.b", granted |-> TRUE, minor |-> 12],
              [id |-> "org.c", granted |-> FALSE, minor |-> 13]}
=============================================================================
