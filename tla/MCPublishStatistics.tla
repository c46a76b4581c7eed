------------------------ MODULE MCPublishStatistics ------------------------
(* PublishStatistics with a short queue and a few publications. *)
EXTENDS PublishStatistics
=============================================================================
