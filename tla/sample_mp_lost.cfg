SPECIFICATION FairSpec
PROPERTY MessageHandled
