----------------------------- MODULE MCScreens -----------------------------
(* All pages of the front ends; pages that are alike are one page here.     *)
EXTENDS Screens

Staff == INSTANCE StaffPages
Field == INSTANCE FieldPages
Portal == INSTANCE PortalPages
Admin == INSTANCE AdminPages

AllPages ==
  Staff!StaffScreens \cup Field!FieldScreens \cup Portal!PortalScreens
    \cup Admin!AdminScreens
=============================================================================
