---------------------------- MODULE MCScanControl ----------------------------
(* A small instance of ScanControl: one camera to begin with, one video file, *)
(* two processes, one change to the table.                                    *)
EXTENDS ScanControl

MCVideos == {1}
MCStreams == {"rtsp1", "rtsp2"}
MCPath == [v \in MCVideos |-> "file"]

===============================================================================
