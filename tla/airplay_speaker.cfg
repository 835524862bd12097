SPECIFICATION FairSpeakerSpec
CONSTANTS
  MaxSid = 2
CHECK_DEADLOCK FALSE
INVARIANT CalmPolls
PROPERTY InterruptedResumes
