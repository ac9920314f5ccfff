-------------------------------- MODULE Parts --------------------------------
(***************************************************************************)
(* Parts of the program that share no state, side by side: the interval    *)
(* algorithms (Ranges), the two readers of a source database (SourceView,  *)
(* PageOwners), the decision to reuse a capture (MonitoredSync), the media *)
(* ledger (MediaLedger), the monthly archives (MonthlyArchive) and the     *)
(* routing of a WhatsApp or a Messages delta (Routes). A behaviour         *)
(* exercises one of them, `subject`, and the others rest.                  *)
(***************************************************************************)
EXTENDS Ranges, SourceView, PageOwners, MonitoredSync, MediaLedger, MonthlyArchive, Routes

rangesVars == <<ranges, latest, importVars, spans, covered>>

partsVars == <<subject, rangesVars, sourceVars, ownerVars, monitoredVars, ledgerVars, archiveVars, routeVars>>

PartsInit ==
  /\ subject \in {"freshness", "import", "coverage", "source", "pages", "monitor", "media", "archives",
                  "whatsapp", "messages"}
  /\ RangesInit /\ SourceInit /\ OwnersInit /\ MonitoredInit /\ LedgerInit /\ ArchiveInit /\ RoutesInit
  /\ subject # "media" => \A f \in MediaFiles : disk[f] # NoFile

RangesStep ==
  RangesNext /\ UNCHANGED <<sourceVars, ownerVars, monitoredVars, ledgerVars, archiveVars, routeVars>>

SourceStep == subject = "source" /\ SourceNext
  /\ UNCHANGED <<subject, rangesVars, ownerVars, monitoredVars, ledgerVars, archiveVars, routeVars>>

PagesStep == subject = "pages" /\ OwnersNext
  /\ UNCHANGED <<subject, rangesVars, sourceVars, monitoredVars, ledgerVars, archiveVars, routeVars>>

MonitorStep == subject = "monitor" /\ MonitoredNext
  /\ UNCHANGED <<subject, rangesVars, sourceVars, ownerVars, ledgerVars, archiveVars, routeVars>>

MediaStep == subject = "media" /\ LedgerNext
  /\ UNCHANGED <<subject, rangesVars, sourceVars, ownerVars, monitoredVars, archiveVars, routeVars>>

ArchiveStep == subject = "archives" /\ ArchiveNext
  /\ UNCHANGED <<subject, rangesVars, sourceVars, ownerVars, monitoredVars, ledgerVars, routeVars>>

SelectiveStep ==
  RoutesNext /\ UNCHANGED <<rangesVars, sourceVars, ownerVars, monitoredVars, ledgerVars, archiveVars>>

PartsNext ==
  \/ RangesStep \/ SourceStep \/ PagesStep \/ MonitorStep \/ MediaStep \/ ArchiveStep
  \/ SelectiveStep

PartsSpec == PartsInit /\ [][PartsNext]_partsVars

=============================================================================
