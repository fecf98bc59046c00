\* Prompts, projects and configurations as agents meet them; one gate at a time throws.
CONSTANTS
  Drafts <- FewDrafts
  Disks <- FewDisks
  EnabledSets <- FewEnabled
  FailingSets <- FewFailing
SPECIFICATION FairSpec
INVARIANTS TypeOK HighRiskNeverSlips DenialsAreFew
PROPERTY DelegationLaunches
