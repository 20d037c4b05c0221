SPECIFICATION Spec
CONSTANTS
  JobCounts <- MCJobCounts
  ThreadCounts <- MCThreadCounts
PROPERTY
  ImplementsParallelFor
