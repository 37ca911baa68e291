---------------------------- MODULE MCSensorFiles ----------------------------
(* Instances for TLC of the Sensor Files window, of the preview in it and of what the main window
   shows of the sensor.  They share no state here, so a behaviour is one of the three.           *)
EXTENDS SensorFiles, PreviewPane, SensorLink

VARIABLE part
CONSTANTS f1, f2, side, s1, bad

LinkAtRest == alive = FALSE /\ win = Blank([no |-> 1, host |-> NoHost, demo |-> FALSE])

MCInit ==
  /\ Init /\ PreviewInit
  /\ \/ part \in {"window", "preview"} /\ LinkAtRest
     \/ part = "link" /\ LinkInit

MCNext ==
  /\ UNCHANGED part
  /\ \/ part = "window" /\ Next /\ UNCHANGED <<preview_vars, link_vars>>
     \/ part = "preview" /\ PreviewNext /\ UNCHANGED <<vars, link_vars>>
     \/ part = "link" /\ LinkNext /\ UNCHANGED <<vars, preview_vars>>

FairSpec ==
  /\ MCInit /\ [][MCNext]_<<part, vars, preview_vars, link_vars>>
  /\ Fairness /\ PreviewFairness /\ LinkFairness

(* What the Sensor Files window, its preview and the main window's storage line say is so: of whole
   files, of the file that is selected, and of one read of the storage at a time.                  *)
WindowsAreRight == FilesAreWhole /\ PreviewTypeOK /\ ShowsTheSelected /\ LinkTypeOK /\ OneStorageRead

(* None of them stays busy: the window, the preview, the check of the link and the reading of the
   storage end, whatever was begun before or instead.                                             *)
WindowsGoOn == Unlocked /\ PreparingEnds /\ LinkIsChecked /\ StorageIsRead
==============================================================================
